---------------------------- MODULE Spec2Model ----------------------------
(***************************************************************************)
(* Provider-chain executor of jpzuo/commit-generator (src/ai/executor.ts,  *)
(* the adapters and their registry), modelled as a state machine: one run  *)
(* of executeProviderChain over an ordered list of resolved profiles, with *)
(* the HTTP exchange of every attempt (fetch, deadline timer, body read)   *)
(* as the environment's nondeterministic answers.                          *)
(***************************************************************************)
EXTENDS Integers, Sequences, FiniteSets, TLC

(***************************************************************************)
(* Bounds of the model.                                                    *)
(***************************************************************************)
MaxProfiles == 2

MaxRetriesCfg == 1

\* largest attempt number backoffMs is evaluated on
MaxBackoffAttempt == 20

\* longest providerProfiles array given to resolveExtensionSettings
MaxRawProfiles == 2

\* longest profile list and longest fallback list given to buildExecutionOrder
MaxOrderProfiles == 3

MaxFallbacks == 2

\* longest URL given to normalizeBaseUrl, in tokens
MaxUrlLen == 4

\* longest base URL given to joinVersionedPath, in tokens
MaxBaseLen == 3

\* longest list of parts in a gemini response
MaxParts == 2

\* longest list of failures given to summarizeFailures
MaxFailureList == 2
MaxEntries == 2
MaxInvocations == 3

(***************************************************************************)
(* Strings are sequences of characters; " " and the line break "\n" are   *)
(* the whitespace characters used.                                         *)
(***************************************************************************)
\* an absent optional string (undefined); never a real text
NoValue == <<"undefined">>

IsSpace(c) == c \in {" ", "\n"}

RECURSIVE TrimLeft(_)
TrimLeft(s) ==
    IF s = <<>> THEN <<>>
    ELSE IF IsSpace(Head(s)) THEN TrimLeft(Tail(s)) ELSE s

RECURSIVE TrimRight(_)
TrimRight(s) ==
    IF s = <<>> THEN <<>>
    ELSE IF IsSpace(s[Len(s)]) THEN TrimRight(SubSeq(s, 1, Len(s) - 1)) ELSE s

\* String.prototype.trim
Trim(s) == TrimRight(TrimLeft(s))

(***************************************************************************)
(* Provider kinds and adapters.                                            *)
(***************************************************************************)
ProviderKind ==
    {"openaiCompat", "openaiResponses", "anthropic", "azureOpenai", "gemini", "ollama"}

\* requireApiKey / requireDeployment: apiKey && apiKey.trim().length > 0
HasText(v) == v # NoValue /\ Len(Trim(v)) > 0

\* buildRequest as it would be without azureOpenai's requireDeployment
BuildRequestThrowsNoDeployment(profile) ==
    profile.kind # "ollama" /\ ~HasText(profile.apiKey)

\* TRUE when adapter.buildRequest throws for the profile (before any network call)
BuildRequestThrows(profile) ==
    CASE profile.kind = "openaiCompat"    -> ~HasText(profile.apiKey)
      [] profile.kind = "openaiResponses" -> ~HasText(profile.apiKey)
      [] profile.kind = "anthropic"       -> ~HasText(profile.apiKey)
      [] profile.kind = "gemini"          -> ~HasText(profile.apiKey)
      [] profile.kind = "azureOpenai"     ->
            ~HasText(profile.apiKey) \/ ~HasText(profile.azureDeployment)
      [] profile.kind = "ollama"          -> FALSE

\* The response shape each adapter's parseResponse reads its text from.
ShapeOf(kind) ==
    CASE kind = "openaiCompat"    -> "choices"
      [] kind = "azureOpenai"     -> "choices"
      [] kind = "openaiResponses" -> "output"
      [] kind = "anthropic"       -> "content"
      [] kind = "gemini"          -> "candidates"
      [] kind = "ollama"          -> "message"

\* adapter.parseResponse(data): the text of a response of the adapter's
\* shape, the empty string for anything else (never throws)
ParseResponse(kind, data) ==
    IF data.shape # ShapeOf(kind) THEN <<>>
    ELSE IF kind = "gemini" THEN Trim(data.text)
    ELSE data.text

(***************************************************************************)
(* Retry policy.                                                           *)
(***************************************************************************)
\* the policy without 408 / with every error status retryable
isRetryableStatusNo408(status) == status = 429 \/ status >= 500

isRetryableStatusAnyError(status) == status >= 400

isRetryableStatus(status) == status = 408 \/ status = 429 \/ status >= 500

\* ProviderFailure.status is optional; 0 stands for its absence
NoStatus == 0

\* Errors are records [cls, status, msg]; cls is the JavaScript class.
HttpStatusError(status) == [cls |-> "HttpStatusError", status |-> status, msg |-> "http"]
TimeoutRequestError == [cls |-> "TimeoutRequestError", status |-> NoStatus, msg |-> "timeout"]
NetworkRequestError == [cls |-> "NetworkRequestError", status |-> NoStatus, msg |-> "network"]
PlainError(msg) == [cls |-> "Error", status |-> NoStatus, msg |-> msg]

\* normalizeError with unclassified errors treated as retryable
normalizeErrorPlainRetryable(error) ==
    IF error.cls = "HttpStatusError"
    THEN [message |-> error.msg, status |-> error.status,
          retryable |-> isRetryableStatus(error.status)]
    ELSE [message |-> error.msg, status |-> NoStatus, retryable |-> TRUE]

normalizeError(error) ==
    IF error.cls = "HttpStatusError"
    THEN [message |-> error.msg, status |-> error.status,
          retryable |-> isRetryableStatus(error.status)]
    ELSE IF error.cls \in {"TimeoutRequestError", "NetworkRequestError"}
    THEN [message |-> error.msg, status |-> NoStatus, retryable |-> TRUE]
    ELSE [message |-> error.msg, status |-> NoStatus, retryable |-> FALSE]

Min(a, b) == IF a < b THEN a ELSE b

Max(a, b) == IF a > b THEN a ELSE b

\* the delay without the 2000 ms cap
backoffMsNoCap(attempt) == 300 * 2 ^ (attempt - 1)

backoffMs(attempt) == Min(2000, 300 * 2 ^ (attempt - 1))

\* totalAttempts without the initial attempt
TotalAttemptsNoInitial(profile) == Max(0, profile.maxRetries)

\* totalAttempts = Math.max(0, profile.maxRetries) + 1
TotalAttemptsOneMore(profile) == Max(0, profile.maxRetries) + 2

TotalAttempts(profile) == Max(0, profile.maxRetries) + 1

\* response.ok
ResponseOk(status) == status >= 200 /\ status <= 299

(***************************************************************************)
(* Inputs.                                                                 *)
(***************************************************************************)
KeyChoices == {NoValue, <<" ">>, <<"k">>}

DeploymentChoices == {NoValue, <<"d">>}

\* maxRetries: negative, zero and the largest configured budget
RetryChoices == {-1, 0, MaxRetriesCfg}

AllProfiles ==
    [kind : ProviderKind, apiKey : KeyChoices,
     azureDeployment : DeploymentChoices, maxRetries : RetryChoices]

\* The profiles a run is given: every retry budget on an openaiCompat profile
\* with a key; an azureOpenai and an ollama profile that pass their adapter's
\* precondition, without retry; and every kind with a credential missing (or
\* blank, or the deployment missing) and the largest retry budget.
ProfileSet ==
    {p \in AllProfiles :
        /\ p.kind # "azureOpenai" => p.azureDeployment = NoValue
        /\ p.kind = "ollama" => p.apiKey = NoValue
        /\ p.apiKey = <<" ">> => p.kind = "openaiCompat"
        /\ \/ p.kind = "openaiCompat" /\ p.apiKey = <<"k">>
           \/ /\ p.kind \in {"azureOpenai", "ollama"}
              /\ ~BuildRequestThrows(p)
              /\ p.maxRetries = 0
           \/ BuildRequestThrows(p) /\ p.maxRetries = MaxRetriesCfg}

HttpStatuses == {200, 404, 503}

TextChoices == {<<>>, <<" ">>, <<"m">>, <<" ", "m", " ">>}

TransformChoices == {"none", "pad", "reject"}

\* a transformMessage that throws, and the loggers: a sink that returns, and a
\* logger whose log() throws on every call
FaultyTransformChoices == TransformChoices \cup {"throws"}

LoggerChoices == {"sink", "throws"}

\* input.transformMessage(parsedMessage)
ApplyTransform(t, m) ==
    CASE t = "identity" -> m
      [] t = "pad"      -> <<" ">> \o m \o <<" ">>
      [] t = "reject"   -> <<>>

\* the transformed message without the second trim
TransformedMessageNoTrim(t, parsedMessage) ==
    IF t = "none" THEN parsedMessage ELSE ApplyTransform(t, parsedMessage)

\* input.transformMessage ? input.transformMessage(parsedMessage).trim() : parsedMessage
TransformedMessage(t, parsedMessage) ==
    IF t = "none" THEN parsedMessage ELSE Trim(ApplyTransform(t, parsedMessage))

(***************************************************************************)
(* State of one run of executeProviderChain.                               *)
(***************************************************************************)
VARIABLES
    profiles,       \* input.profiles
    transform,      \* input.transformMessage
    logger,         \* the logger argument
    pIdx,           \* position of the outer for-loop in profiles (1-based)
    attempt,        \* the inner loop's attempt
    pc,             \* where the run is suspended ("settled": postJson has
                    \* settled, `await postJson` has not resumed yet)
    failures,       \* const failures: ProviderFailure[]
    returned,       \* the ProviderRunResult, once returned
    timer,          \* postJson's deadline timer
    inFlight,       \* the HTTP exchanges still open (not completed, not aborted)
    deadlinePassed, \* timeoutMs has elapsed since the request in progress started
    respStatus,     \* postJson's response.status once fetch has resolved
    lastError,      \* the error the latest attempt ended with: thrown by postJson
                    \* (pc = "settled") and then caught by the catch block
    attempts,       \* history: every attempt started, as [pos, attempt, outcome]
    httpCalls,      \* history: the fetch calls issued, as <<position, attempt>>
    sleeps,         \* history: the backoff sleeps, as [after |-> <<position, attempt>>, ms]
    winData,        \* response.data: the decoded body postJson returned
                    \* (pc = "settled"), kept when the attempt succeeds
    trace,          \* the logger.log messages and the fetch call of the latest attempt
    fnArg,          \* argument of the pure function under evaluation
    fnOut,          \* its result
    fnDone,         \* whether it has been evaluated
    parked,         \* the locals of a second invocation, suspended at an await
    running         \* which invocation the variables above belong to (1 or 2)

chainVars ==
    <<profiles, transform, logger, pIdx, attempt, pc, failures, returned, timer,
      inFlight, deadlinePassed, respStatus, lastError, attempts, httpCalls, sleeps,
      winData, trace>>

fnVars == <<fnArg, fnOut, fnDone>>

schedVars == <<parked, running>>

vars == <<chainVars, fnVars, schedVars>>

\* no second invocation
NoInvocation == [pc |-> "none"]

NoSuccess == [profileId |-> 0]

NoResult == [returned |-> FALSE]

NoError == [cls |-> "none", status |-> NoStatus, msg |-> "none"]

NoData == [shape |-> "none", text |-> <<>>]

\* profile.id: the profiles of one run have distinct ids; the position is used
ProfileId(i) == i

Profile == profiles[pIdx]

SeqsUpTo(S, n) == UNION {[1 .. k -> S] : k \in 0 .. n}

Init ==
    /\ profiles \in SeqsUpTo(ProfileSet, MaxProfiles)
    /\ transform \in TransformChoices
    /\ logger = "sink"
    /\ pIdx = 1
    /\ attempt = 1
    /\ pc = "buildRequest"
    /\ failures = <<>>
    /\ returned = NoResult
    /\ timer = "none"
    /\ inFlight = {}
    /\ deadlinePassed = FALSE
    /\ respStatus = NoStatus
    /\ lastError = NoError
    /\ attempts = <<>>
    /\ httpCalls = <<>>
    /\ sleeps = <<>>
    /\ winData = NoData
    /\ trace = <<>>
    /\ fnArg = 0
    /\ fnOut = FALSE
    /\ fnDone = FALSE
    /\ parked = NoInvocation
    /\ running = 1

\* history: the attempt in progress starts / ends
Started(log) == Append(log, [pos |-> pIdx, attempt |-> attempt, outcome |-> "pending"])

Ended(log, outcome) == [log EXCEPT ![Len(log)].outcome = outcome]

\* the catch block keeping only the latest failure
CatchDiscards(error, endpoint, logged) ==
    LET normalized == normalizeError(error)
        failure == [profileId |-> ProfileId(pIdx),
                    provider  |-> Profile.kind,
                    endpoint  |-> endpoint,
                    status    |-> normalized.status,
                    retryable |-> normalized.retryable,
                    attempt   |-> attempt]
    IN  /\ failures' = <<failure>>
        /\ lastError' = error
        /\ IF normalized.retryable /\ attempt < TotalAttempts(Profile)
           THEN /\ pc' = "sleep"
                /\ sleeps' = Append(sleeps, [after |-> <<pIdx, attempt>>,
                                             ms |-> backoffMs(attempt)])
                /\ trace' = logged \o <<"provider_failure",
                                         "provider_retry_scheduled">>
                /\ UNCHANGED <<pIdx, attempt>>
           ELSE /\ pc' = "buildRequest"
                /\ pIdx' = pIdx + 1
                /\ attempt' = 1
                /\ UNCHANGED sleeps
                /\ trace' = logged \o <<"provider_failure">>

\* the catch block putting the newest failure first
CatchPrepends(error, endpoint, logged) ==
    LET normalized == normalizeError(error)
        failure == [profileId |-> ProfileId(pIdx),
                    provider  |-> Profile.kind,
                    endpoint  |-> endpoint,
                    status    |-> normalized.status,
                    retryable |-> normalized.retryable,
                    attempt   |-> attempt]
    IN  /\ failures' = <<failure>> \o failures
        /\ lastError' = error
        /\ IF normalized.retryable /\ attempt < TotalAttempts(Profile)
           THEN /\ pc' = "sleep"
                /\ sleeps' = Append(sleeps, [after |-> <<pIdx, attempt>>,
                                             ms |-> backoffMs(attempt)])
                /\ trace' = logged \o <<"provider_failure",
                                         "provider_retry_scheduled">>
                /\ UNCHANGED <<pIdx, attempt>>
           ELSE /\ pc' = "buildRequest"
                /\ pIdx' = pIdx + 1
                /\ attempt' = 1
                /\ UNCHANGED sleeps
                /\ trace' = logged \o <<"provider_failure">>

\* the catch block retrying whatever the failure is
CatchRetriesAll(error, endpoint, logged) ==
    LET normalized == normalizeError(error)
        failure == [profileId |-> ProfileId(pIdx),
                    provider  |-> Profile.kind,
                    endpoint  |-> endpoint,
                    status    |-> normalized.status,
                    retryable |-> normalized.retryable,
                    attempt   |-> attempt]
    IN  /\ failures' = Append(failures, failure)
        /\ lastError' = error
        /\ IF attempt < TotalAttempts(Profile)
           THEN /\ pc' = "sleep"
                /\ sleeps' = Append(sleeps, [after |-> <<pIdx, attempt>>,
                                             ms |-> backoffMs(attempt)])
                /\ trace' = logged \o <<"provider_failure",
                                         "provider_retry_scheduled">>
                /\ UNCHANGED <<pIdx, attempt>>
           ELSE /\ pc' = "buildRequest"
                /\ pIdx' = pIdx + 1
                /\ attempt' = 1
                /\ UNCHANGED sleeps
                /\ trace' = logged \o <<"provider_failure">>

\* the catch block leaving the profile after its first failure
CatchNeverRetries(error, endpoint, logged) ==
    LET normalized == normalizeError(error)
        failure == [profileId |-> ProfileId(pIdx),
                    provider  |-> Profile.kind,
                    endpoint  |-> endpoint,
                    status    |-> normalized.status,
                    retryable |-> normalized.retryable,
                    attempt   |-> attempt]
    IN  /\ failures' = Append(failures, failure)
        /\ lastError' = error
        /\ IF logger = "throws"
           THEN /\ pc' = "rejected"
                /\ trace' = logged \o <<"provider_failure">>
                /\ UNCHANGED <<pIdx, attempt, sleeps>>
           ELSE IF normalized.retryable /\ attempt < 0
           THEN /\ pc' = "sleep"
                /\ sleeps' = Append(sleeps, [after |-> <<pIdx, attempt>>,
                                             ms |-> backoffMs(attempt)])
                /\ trace' = logged \o <<"provider_failure",
                                         "provider_retry_scheduled">>
                /\ UNCHANGED <<pIdx, attempt>>
           ELSE /\ pc' = "buildRequest"
                /\ pIdx' = pIdx + 1
                /\ attempt' = 1
                /\ UNCHANGED sleeps
                /\ trace' = logged \o <<"provider_failure">>

\* The catch block of an attempt: record the failure, log it, then retry after
\* the backoff sleep or break out to the next profile. The logger.log calls of
\* the catch block are not guarded: when log() throws, the exception leaves
\* executeProviderChain and the promise it returned rejects.
Catch(error, endpoint, logged) ==
    LET normalized == normalizeError(error)
        failure == [profileId |-> ProfileId(pIdx),
                    provider  |-> Profile.kind,
                    endpoint  |-> endpoint,
                    status    |-> normalized.status,
                    retryable |-> normalized.retryable,
                    attempt   |-> attempt]
    IN  /\ failures' = Append(failures, failure)
        /\ lastError' = error
        /\ IF logger = "throws"
           THEN /\ pc' = "rejected"
                /\ trace' = logged \o <<"provider_failure">>
                /\ UNCHANGED <<pIdx, attempt, sleeps>>
           ELSE IF normalized.retryable /\ attempt < TotalAttempts(Profile)
           THEN /\ pc' = "sleep"
                /\ sleeps' = Append(sleeps, [after |-> <<pIdx, attempt>>,
                                             ms |-> backoffMs(attempt)])
                /\ trace' = logged \o <<"provider_failure",
                                         "provider_retry_scheduled">>
                /\ UNCHANGED <<pIdx, attempt>>
           ELSE /\ pc' = "buildRequest"
                /\ pIdx' = pIdx + 1
                /\ attempt' = 1
                /\ UNCHANGED sleeps
                /\ trace' = logged \o <<"provider_failure">>

\* adapter.buildRequest throws: nothing is sent, endpoint is still profile.baseUrl
BuildRequestFails ==
    /\ pc = "buildRequest"
    /\ pIdx <= Len(profiles)
    /\ BuildRequestThrows(Profile)
    /\ attempts' = Ended(Started(attempts), "failed")
    /\ Catch(PlainError("precondition"), "baseUrl", <<>>)
    /\ UNCHANGED <<profiles, transform, logger, winData, returned, timer, inFlight, deadlinePassed,
                   respStatus, httpCalls, fnVars, schedVars>>

\* the fetch call made before the request is logged
RequestTraceFetchFirst == <<"fetch", "provider_request", "provider_http_request">>

\* the two request entries are logged, then postJson calls fetch
RequestTrace == <<"provider_request", "provider_http_request", "fetch">>

\* adapter.buildRequest returns and the request is logged; postJson arms the
\* timer and calls fetch. When logger.log throws, the try block is left before
\* postJson is called.
SendRequest ==
    /\ pc = "buildRequest"
    /\ pIdx <= Len(profiles)
    /\ ~BuildRequestThrows(Profile)
    /\ IF logger = "throws"
       THEN /\ attempts' = Ended(Started(attempts), "failed")
            /\ Catch(PlainError("logger"), "request", <<"provider_request">>)
            /\ UNCHANGED <<timer, inFlight, httpCalls>>
       ELSE /\ timer' = "armed"
            /\ inFlight' = inFlight \cup {<<pIdx, attempt>>}
            /\ httpCalls' = Append(httpCalls, <<pIdx, attempt>>)
            /\ attempts' = Started(attempts)
            /\ lastError' = NoError
            /\ pc' = "fetch"
            /\ trace' = RequestTrace
            /\ UNCHANGED <<pIdx, attempt, failures, sleeps>>
    /\ UNCHANGED <<profiles, transform, logger, winData, returned, deadlinePassed, respStatus,
                   fnVars, schedVars>>

\* fetch resolves with the response headers; finally clearTimeout(timer)
FetchResolves ==
    /\ pc = "fetch"
    /\ \E status \in HttpStatuses : respStatus' = status
    /\ timer' = "cleared"
    /\ pc' = "text"
    /\ UNCHANGED <<profiles, transform, logger, winData, trace, pIdx, attempt, failures,
                   returned, inFlight, deadlinePassed, lastError, attempts, httpCalls,
                   sleeps, fnVars, schedVars>>

\* a rejected fetch whose exchange stays open
FetchNetworkErrorKeepsOpen ==
    /\ pc = "fetch"
    /\ timer' = "cleared"
    /\ lastError' = NetworkRequestError
    /\ trace' = trace \o <<"provider_http_network_error">>
    /\ pc' = "settled"
    /\ UNCHANGED <<profiles, transform, logger, winData, returned, inFlight, deadlinePassed,
                   respStatus, httpCalls, pIdx, attempt, failures, attempts, sleeps,
                   fnVars, schedVars>>

\* fetch rejects with a connection-level error: postJson logs it, clears the
\* timer in its finally block and throws a NetworkRequestError. The catch
\* block of executeProviderChain runs when `await postJson` resumes.
FetchNetworkError ==
    /\ pc = "fetch"
    /\ timer' = "cleared"
    /\ inFlight' = inFlight \ {<<pIdx, attempt>>}
    /\ lastError' = NetworkRequestError
    /\ trace' = trace \o <<"provider_http_network_error">>
    /\ pc' = "settled"
    /\ UNCHANGED <<profiles, transform, logger, winData, returned, deadlinePassed, respStatus,
                   httpCalls, pIdx, attempt, failures, attempts, sleeps, fnVars, schedVars>>

\* timeoutMs elapses after the request started. An armed timer runs
\* controller.abort(): fetch rejects with AbortError, postJson logs the
\* timeout and throws a TimeoutRequestError. A cleared timer does nothing.
DeadlineElapses ==
    /\ pc \in {"fetch", "text"}
    /\ ~deadlinePassed
    /\ IF timer = "armed"
       THEN /\ timer' = "cleared"
            /\ inFlight' = inFlight \ {<<pIdx, attempt>>}
            /\ lastError' = TimeoutRequestError
            /\ trace' = trace \o <<"provider_http_timeout">>
            /\ pc' = "settled"
            /\ UNCHANGED <<profiles, transform, logger, winData, returned,
                           deadlinePassed, respStatus, httpCalls, pIdx, attempt,
                           failures, attempts, sleeps, fnVars, schedVars>>
       ELSE /\ deadlinePassed' = TRUE
            /\ UNCHANGED <<profiles, transform, logger, winData, trace, pIdx, attempt, pc,
                           failures, returned, timer, inFlight, respStatus, lastError,
                           attempts, httpCalls, sleeps, fnVars, schedVars>>

\* The decoded bodies an endpoint of the kind may answer with: its own response
\* shape around each text, and a body of a foreign shape.
DataChoices(kind) ==
    [shape : {ShapeOf(kind)}, text : TextChoices]
        \cup {[shape |-> "other", text |-> <<"m">>]}

\* the success result without the failure trail
SuccessResultNoFailures(message) ==
    [returned |-> TRUE,
     success  |-> [profileId |-> ProfileId(pIdx), provider |-> Profile.kind,
                   endpoint |-> "request", message |-> message],
     failures |-> <<>>]

\* return { success: {...}, failures }
SuccessResult(message) ==
    [returned |-> TRUE,
     success  |-> [profileId |-> ProfileId(pIdx), provider |-> Profile.kind,
                   endpoint |-> "request", message |-> message],
     failures |-> failures]

\* response.text() resolves: postJson decodes the body, logs the response and
\* throws an HttpStatusError or returns the decoded body
TextResolves ==
    /\ pc = "text"
    /\ inFlight' = inFlight \ {<<pIdx, attempt>>}
    /\ trace' = trace \o <<"provider_http_response">>
    /\ IF ~ResponseOk(respStatus)
       THEN /\ lastError' = HttpStatusError(respStatus)
            /\ UNCHANGED winData
       ELSE /\ \E data \in DataChoices(Profile.kind) : winData' = data
            /\ UNCHANGED lastError
    /\ pc' = "settled"
    /\ respStatus' = NoStatus
    /\ deadlinePassed' = FALSE
    /\ UNCHANGED <<profiles, transform, logger, timer, httpCalls, returned, pIdx, attempt,
                   failures, attempts, sleeps, fnVars, schedVars>>

\* response.text() rejects (the connection breaks while the body is read):
\* the error leaves postJson outside its try block, as a plain Error
TextRejects ==
    /\ pc = "text"
    /\ inFlight' = inFlight \ {<<pIdx, attempt>>}
    /\ lastError' = PlainError("terminated")
    /\ pc' = "settled"
    /\ respStatus' = NoStatus
    /\ deadlinePassed' = FALSE
    /\ UNCHANGED <<profiles, transform, logger, winData, returned, timer, httpCalls, trace,
                   pIdx, attempt, failures, attempts, sleeps, fnVars, schedVars>>

\* `await postJson(...)` resumes in executeProviderChain, in a later microtask
\* than the one in which postJson settled: with the error postJson threw the
\* catch block runs; with its response the message is parsed, transformed and
\* validated, and the result returned
PostJsonSettled ==
    /\ pc = "settled"
    /\ IF lastError # NoError
       THEN /\ Catch(lastError, "request", trace)
            /\ attempts' = Ended(attempts, "failed")
            /\ UNCHANGED <<returned, winData>>
       ELSE LET parsedMessage == Trim(ParseResponse(Profile.kind, winData))
                transformedMessage == TransformedMessage(transform, parsedMessage)
            IN  IF transform = "throws"
                THEN /\ Catch(PlainError("transform"), "request", trace)
                     /\ attempts' = Ended(attempts, "failed")
                     /\ winData' = NoData
                     /\ UNCHANGED returned
                ELSE IF transformedMessage = <<>>
                THEN /\ Catch(PlainError("empty"), "request",
                              trace \o <<"provider_message_transform">>)
                     /\ attempts' = Ended(attempts, "failed")
                     /\ winData' = NoData
                     /\ UNCHANGED returned
                ELSE /\ returned' = SuccessResult(transformedMessage)
                     /\ trace' = trace \o <<"provider_message_transform",
                                             "provider_success">>
                     /\ attempts' = Ended(attempts, "ok")
                     /\ pc' = "done"
                     /\ UNCHANGED <<pIdx, attempt, failures, lastError, sleeps, winData>>
    /\ UNCHANGED <<profiles, transform, logger, timer, inFlight, deadlinePassed, respStatus,
                   httpCalls, fnVars, schedVars>>

\* the backoff sleep ends: continue with the next attempt of the same profile
SleepDone ==
    /\ pc = "sleep"
    /\ attempt' = attempt + 1
    /\ pc' = "buildRequest"
    /\ UNCHANGED <<profiles, transform, logger, winData, trace, pIdx, failures, returned,
                   timer, inFlight, deadlinePassed, respStatus, lastError, attempts,
                   httpCalls, sleeps, fnVars, schedVars>>

\* the profile loop is exhausted: return { failures }
ReturnFailures ==
    /\ pc = "buildRequest"
    /\ pIdx > Len(profiles)
    /\ returned' = [returned |-> TRUE, success |-> NoSuccess, failures |-> failures]
    /\ pc' = "done"
    /\ UNCHANGED <<profiles, transform, logger, winData, trace, pIdx, attempt, failures,
                   timer, inFlight, deadlinePassed, respStatus, lastError, attempts,
                   httpCalls, sleeps, fnVars, schedVars>>

Next ==
    \/ BuildRequestFails
    \/ SendRequest
    \/ FetchResolves
    \/ FetchNetworkError
    \/ DeadlineElapses
    \/ TextResolves
    \/ TextRejects
    \/ PostJsonSettled
    \/ SleepDone
    \/ ReturnFailures

Spec == Init /\ [][Next]_vars

\* The run under the scheduling the runtime guarantees: the synchronous steps
\* of the executor are taken, and a timer that was set fires (the deadline,
\* the backoff sleep). Nothing obliges the server to answer.
SpecLive ==
    /\ Init
    /\ [][Next]_vars
    /\ WF_vars(BuildRequestFails)
    /\ WF_vars(SendRequest)
    /\ WF_vars(DeadlineElapses)
    /\ WF_vars(PostJsonSettled)
    /\ WF_vars(SleepDone)
    /\ WF_vars(ReturnFailures)

\* The same run with collaborators that may throw: any transformMessage and
\* any logger.
InitFaulty ==
    /\ profiles \in SeqsUpTo(ProfileSet, MaxProfiles)
    /\ transform \in FaultyTransformChoices
    /\ logger \in LoggerChoices
    /\ pIdx = 1
    /\ attempt = 1
    /\ pc = "buildRequest"
    /\ failures = <<>>
    /\ returned = NoResult
    /\ timer = "none"
    /\ inFlight = {}
    /\ deadlinePassed = FALSE
    /\ respStatus = NoStatus
    /\ lastError = NoError
    /\ attempts = <<>>
    /\ httpCalls = <<>>
    /\ sleeps = <<>>
    /\ winData = NoData
    /\ trace = <<>>
    /\ fnArg = 0
    /\ fnOut = FALSE
    /\ fnDone = FALSE
    /\ parked = NoInvocation
    /\ running = 1

SpecFaulty == InitFaulty /\ [][Next]_vars

(***************************************************************************)
(* Two invocations of executeProviderChain on the one JavaScript thread:   *)
(* the variables of the chain are the locals of the invocation that runs,  *)
(* parked holds the locals of the other one, suspended at an await.        *)
(***************************************************************************)
\* the locals of the running invocation
RunState ==
    [profiles |-> profiles, transform |-> transform, logger |-> logger,
     pIdx |-> pIdx, attempt |-> attempt, pc |-> pc, failures |-> failures,
     returned |-> returned, timer |-> timer, inFlight |-> inFlight,
     deadlinePassed |-> deadlinePassed, respStatus |-> respStatus,
     lastError |-> lastError, attempts |-> attempts, httpCalls |-> httpCalls,
     sleeps |-> sleeps, winData |-> winData, trace |-> trace]

\* the locals of an invocation that has not run yet
Fresh(ps) ==
    [profiles |-> ps, transform |-> "none", logger |-> "sink",
     pIdx |-> 1, attempt |-> 1, pc |-> "buildRequest", failures |-> <<>>,
     returned |-> NoResult, timer |-> "none", inFlight |-> {},
     deadlinePassed |-> FALSE, respStatus |-> NoStatus,
     lastError |-> NoError, attempts |-> <<>>, httpCalls |-> <<>>,
     sleeps |-> <<>>, winData |-> NoData, trace |-> <<>>]

\* the awaits of postJson (fetch, response.text()) and of executeProviderChain
\* (postJson, once it has settled, and sleep)
SuspensionPoints == {"fetch", "text", "settled", "sleep"}

\* a context switch in which the failures array is shared by the invocations
SwitchSharingFailures ==
    /\ pc \in SuspensionPoints \cup {"done"}
    /\ parked.pc \notin {"none", "done"}
    /\ parked' = RunState
    /\ running' = 3 - running
    /\ profiles' = parked.profiles
    /\ transform' = parked.transform
    /\ logger' = parked.logger
    /\ pIdx' = parked.pIdx
    /\ attempt' = parked.attempt
    /\ pc' = parked.pc
    /\ failures' = failures
    /\ returned' = parked.returned
    /\ timer' = parked.timer
    /\ inFlight' = parked.inFlight
    /\ deadlinePassed' = parked.deadlinePassed
    /\ respStatus' = parked.respStatus
    /\ lastError' = parked.lastError
    /\ attempts' = parked.attempts
    /\ httpCalls' = parked.httpCalls
    /\ sleeps' = parked.sleeps
    /\ winData' = parked.winData
    /\ trace' = parked.trace
    /\ UNCHANGED fnVars

\* The running invocation is suspended at an await (or has returned) and the
\* event loop resumes (or starts) the other one. Every variable of
\* executeProviderChain is a local of the call, failures included.
Switch ==
    /\ pc \in SuspensionPoints \cup {"done"}
    /\ parked.pc \notin {"none", "done"}
    /\ parked' = RunState
    /\ running' = 3 - running
    /\ profiles' = parked.profiles
    /\ transform' = parked.transform
    /\ logger' = parked.logger
    /\ pIdx' = parked.pIdx
    /\ attempt' = parked.attempt
    /\ pc' = parked.pc
    /\ failures' = parked.failures
    /\ returned' = parked.returned
    /\ timer' = parked.timer
    /\ inFlight' = parked.inFlight
    /\ deadlinePassed' = parked.deadlinePassed
    /\ respStatus' = parked.respStatus
    /\ lastError' = parked.lastError
    /\ attempts' = parked.attempts
    /\ httpCalls' = parked.httpCalls
    /\ sleeps' = parked.sleeps
    /\ winData' = parked.winData
    /\ trace' = parked.trace
    /\ UNCHANGED fnVars

\* the inputs of the two invocations: one retried openaiCompat profile for the
\* first, one ollama profile for the second
FirstInputs == [1 .. 1 -> {p \in ProfileSet : p.kind = "openaiCompat" /\ p.maxRetries = MaxRetriesCfg}]

SecondInputs == [1 .. 1 -> {p \in ProfileSet : p.kind = "ollama"}]

InitTwo ==
    /\ profiles \in FirstInputs
    /\ transform = "none"
    /\ logger = "sink"
    /\ pIdx = 1
    /\ attempt = 1
    /\ pc = "buildRequest"
    /\ failures = <<>>
    /\ returned = NoResult
    /\ timer = "none"
    /\ inFlight = {}
    /\ deadlinePassed = FALSE
    /\ respStatus = NoStatus
    /\ lastError = NoError
    /\ attempts = <<>>
    /\ httpCalls = <<>>
    /\ sleeps = <<>>
    /\ winData = NoData
    /\ trace = <<>>
    /\ parked \in {Fresh(ps) : ps \in SecondInputs}
    /\ running = 1
    /\ fnArg = 0
    /\ fnOut = FALSE
    /\ fnDone = FALSE

NextTwo == Next \/ Switch

SpecTwo == InitTwo /\ [][NextTwo]_vars

(***************************************************************************)
(* Pure functions, evaluated on inputs drawn from bounded sets.            *)
(***************************************************************************)
StatusRange == 100 .. 599

\* no chain is running
ChainIdle ==
    /\ profiles = <<>>
    /\ transform = "none"
    /\ logger = "sink"
    /\ pIdx = 1
    /\ attempt = 1
    /\ pc = "idle"
    /\ failures = <<>>
    /\ returned = NoResult
    /\ timer = "none"
    /\ inFlight = {}
    /\ deadlinePassed = FALSE
    /\ respStatus = NoStatus
    /\ lastError = NoError
    /\ attempts = <<>>
    /\ httpCalls = <<>>
    /\ sleeps = <<>>
    /\ winData = NoData
    /\ trace = <<>>

InitStatus ==
    /\ ChainIdle
    /\ fnArg \in StatusRange
    /\ fnOut = FALSE
    /\ fnDone = FALSE
    /\ parked = NoInvocation
    /\ running = 1

\* isRetryableStatus(status) is called
CallIsRetryableStatus ==
    /\ ~fnDone
    /\ fnOut' = isRetryableStatus(fnArg)
    /\ fnDone' = TRUE
    /\ UNCHANGED <<fnArg, chainVars, schedVars>>

NextStatus == CallIsRetryableStatus

SpecStatus == InitStatus /\ [][NextStatus]_vars

\* backoffMs on the numbers a <= b of two failed attempts
BackoffArgs == {<<a, b>> \in (1 .. MaxBackoffAttempt) \X (1 .. MaxBackoffAttempt) : a <= b}

InitBackoff ==
    /\ ChainIdle
    /\ fnArg \in BackoffArgs
    /\ fnOut = FALSE
    /\ fnDone = FALSE
    /\ parked = NoInvocation
    /\ running = 1

\* const waitMs = backoffMs(attempt), for both attempts
CallBackoffMs ==
    /\ ~fnDone
    /\ fnOut' = <<backoffMs(fnArg[1]), backoffMs(fnArg[2])>>
    /\ fnDone' = TRUE
    /\ UNCHANGED <<fnArg, chainVars, schedVars>>

NextBackoff == CallBackoffMs

SpecBackoff == InitBackoff /\ [][NextBackoff]_vars

(***************************************************************************)
(* Settings resolution (src/config/settings.ts): the execution order.      *)
(***************************************************************************)
IdPool == <<"a", "b", "c", "d", "e">>

\* the ids profiles have, an id no profile has, and the empty string
KnownIds == {<<IdPool[i]>> : i \in 1 .. MaxOrderProfiles}

UnknownId == <<"x">>

IdChoices == KnownIds \cup {UnknownId, <<>>}

Range(f) == {f[i] : i \in DOMAIN f}

\* profile lists as resolution produces them: non-empty ids, no id twice
OrderProfiles ==
    {ps \in SeqsUpTo([id : KnownIds, enabled : {TRUE}], MaxOrderProfiles) :
        \A i, j \in 1 .. Len(ps) : ps[i].id = ps[j].id => i = j}

\* byId.get(id) after the loop of byId.set: the last profile with the id
ById(ps, id) ==
    LET at == {i \in 1 .. Len(ps) : ps[i].id = id}
    IN  ps[CHOOSE i \in at : \A j \in at : j <= i]

\* pushIfExists(id) on the pair of ordered and seen
PushIfExists(acc, id, ps) ==
    IF id = <<>> \/ id \in acc.seen THEN acc
    ELSE IF \A i \in 1 .. Len(ps) : ps[i].id # id THEN acc
    ELSE [ordered |-> Append(acc.ordered, ById(ps, id)), seen |-> acc.seen \cup {id}]

\* for (const id of ids) pushIfExists(id)
RECURSIVE PushAll(_, _, _)
PushAll(acc, ids, ps) ==
    IF ids = <<>> THEN acc
    ELSE PushAll(PushIfExists(acc, Head(ids), ps), Tail(ids), ps)

\* the order with the fallbacks ahead of the active profile
buildExecutionOrderFallbacksFirst(ps, activeProfile, fallbackProfiles) ==
    LET start == [ordered |-> <<>>, seen |-> {}]
        withFallbacks == PushAll(start, fallbackProfiles, ps)
        withActive == PushIfExists(withFallbacks, activeProfile, ps)
    IN  PushAll(withActive, [i \in 1 .. Len(ps) |-> ps[i].id], ps).ordered

buildExecutionOrder(ps, activeProfile, fallbackProfiles) ==
    LET start == [ordered |-> <<>>, seen |-> {}]
        withActive == PushIfExists(start, activeProfile, ps)
        withFallbacks == PushAll(withActive, fallbackProfiles, ps)
    IN  PushAll(withFallbacks, [i \in 1 .. Len(ps) |-> ps[i].id], ps).ordered

InitOrder ==
    /\ ChainIdle
    /\ fnArg \in [profiles : OrderProfiles, active : IdChoices,
                   fallbacks : SeqsUpTo(IdChoices, MaxFallbacks)]
    /\ fnOut = FALSE
    /\ fnDone = FALSE
    /\ parked = NoInvocation
    /\ running = 1

\* buildExecutionOrder(profiles, activeProfile, fallbackProfiles) is called
CallBuildExecutionOrder ==
    /\ ~fnDone
    /\ fnOut' = buildExecutionOrder(fnArg.profiles, fnArg.active, fnArg.fallbacks)
    /\ fnDone' = TRUE
    /\ UNCHANGED <<fnArg, chainVars, schedVars>>

NextOrder == CallBuildExecutionOrder

SpecOrder == InitOrder /\ [][NextOrder]_vars

(***************************************************************************)
(* Settings resolution: resolveExtensionSettings(raw, env). Raw values are *)
(* strings (sequences of tokens), NoValue for undefined, NotAString for a  *)
(* value of another type; raw booleans are "true" / "false" / "absent".    *)
(***************************************************************************)
NotAString == <<"number">>

\* a || b on strings
Or(a, b) == IF a # <<>> THEN a ELSE b

toNonEmptyString(value) ==
    IF value \in {NoValue, NotAString} THEN <<>> ELSE Trim(value)

toBoolean(value, defaultValue) ==
    IF value = "true" THEN TRUE ELSE IF value = "false" THEN FALSE ELSE defaultValue

\* toStringArray on an array: the non-empty strings, trimmed, without repeats
RECURSIVE ToStringArrayFrom(_, _)
ToStringArrayFrom(items, unique) ==
    IF items = <<>> THEN unique
    ELSE LET text == toNonEmptyString(Head(items))
         IN  ToStringArrayFrom(Tail(items),
                               IF text # <<>> /\ text \notin Range(unique)
                               THEN Append(unique, text) ELSE unique)

toStringArray(value) == ToStringArrayFrom(value, <<>>)

\* parseProviderKind: the kind, or the empty string for undefined
parseProviderKind(value) ==
    LET kind == toNonEmptyString(value)
    IN  IF kind \in {<<k>> : k \in ProviderKind} THEN kind[1] ELSE ""

parseLegacyProtocol(value) ==
    IF value = <<"responses">> THEN "responses"
    ELSE IF value = <<"anthropicMessages">> THEN "anthropicMessages"
    ELSE "chatCompletions"

mapLegacyProtocolToKind(protocol) ==
    IF protocol = "responses" THEN "openaiResponses"
    ELSE IF protocol = "anthropicMessages" THEN "anthropic"
    ELSE "openaiCompat"

defaultBaseUrlForKind(kind, env) ==
    IF kind = "anthropic"
    THEN Or(toNonEmptyString(env.ANTHROPIC_BASE_URL), <<"https://api.anthropic.com">>)
    ELSE IF kind = "gemini"
    THEN Or(toNonEmptyString(env.GEMINI_BASE_URL),
            <<"https://generativelanguage.googleapis.com">>)
    ELSE IF kind = "ollama"
    THEN Or(toNonEmptyString(env.OLLAMA_BASE_URL), <<"http://127.0.0.1:11434">>)
    ELSE IF kind = "azureOpenai"
    THEN toNonEmptyString(env.AZURE_OPENAI_BASE_URL)
    ELSE Or(toNonEmptyString(env.OPENAI_BASE_URL), <<"https://api.openai.com">>)

defaultModelForKind(kind, env) ==
    IF kind = "anthropic"
    THEN Or(toNonEmptyString(env.ANTHROPIC_MODEL), <<"claude-3-5-sonnet-latest">>)
    ELSE IF kind = "gemini"
    THEN Or(toNonEmptyString(env.GEMINI_MODEL), <<"gemini-1.5-flash">>)
    ELSE IF kind = "ollama"
    THEN Or(toNonEmptyString(env.OLLAMA_MODEL), <<"qwen2.5-coder:7b">>)
    ELSE IF kind = "azureOpenai"
    THEN Or(toNonEmptyString(env.AZURE_OPENAI_MODEL), <<"gpt-4o-mini">>)
    ELSE Or(toNonEmptyString(env.OPENAI_MODEL), <<"gpt-4.1-mini">>)

\* the resolved profile, as far as resolution of id, kind, model, baseUrl and
\* enabled goes
ResolvedProfile(id, kind, model, baseUrl, enabled) ==
    [id |-> id, kind |-> kind, model |-> model, baseUrl |-> baseUrl, enabled |-> enabled]

\* parseSingleProfile keeping a profile without baseUrl
parseSingleProfileKeepsAll(node, env) ==
    LET kind == parseProviderKind(node.kind)
        id == toNonEmptyString(node.id)
    IN  IF ~node.object THEN <<>>
        ELSE IF kind = "" THEN <<>>
        ELSE IF id = <<>> THEN <<>>
        ELSE <<ResolvedProfile(id, kind,
                               Or(toNonEmptyString(node.model), defaultModelForKind(kind, env)),
                               Or(toNonEmptyString(node.baseUrl), defaultBaseUrlForKind(kind, env)),
                               toBoolean(node.enabled, TRUE))>>

\* parseSingleProfile(raw, index, options): <<>> for undefined, else <<profile>>
parseSingleProfile(node, env) ==
    LET kind == parseProviderKind(node.kind)
        id == toNonEmptyString(node.id)
        rawModel == toNonEmptyString(node.model)
        rawBaseUrl == toNonEmptyString(node.baseUrl)
        model == Or(rawModel, defaultModelForKind(kind, env))
        baseUrl == Or(rawBaseUrl, defaultBaseUrlForKind(kind, env))
    IN  IF ~node.object THEN <<>>
        ELSE IF kind = "" THEN <<>>
        ELSE IF id = <<>> THEN <<>>
        ELSE IF baseUrl = <<>> THEN <<>>
        ELSE <<ResolvedProfile(id, kind, model, baseUrl, toBoolean(node.enabled, TRUE))>>

\* rawProfiles.forEach without the check on ids
RECURSIVE ParseFromKeepsAll(_, _, _)
ParseFromKeepsAll(nodes, env, parsed) ==
    IF nodes = <<>> THEN parsed
    ELSE ParseFromKeepsAll(Tail(nodes), env, parsed \o parseSingleProfile(Head(nodes), env))

\* rawProfiles.forEach: keep the parsed profiles whose id is new
RECURSIVE ParseFrom(_, _, _)
ParseFrom(nodes, env, parsed) ==
    IF nodes = <<>> THEN parsed
    ELSE LET profile == parseSingleProfile(Head(nodes), env)
         IN  ParseFrom(Tail(nodes), env,
                       IF Len(profile) = 0 THEN parsed
                       ELSE IF \E i \in 1 .. Len(parsed) : parsed[i].id = profile[1].id
                       THEN parsed
                       ELSE parsed \o profile)

parseProviderProfiles(raw, env) ==
    IF ~raw.profilesIsArray THEN <<>> ELSE ParseFrom(raw.providerProfiles, env, <<>>)

\* hasLegacyConfiguration looking at the two key settings only
hasLegacyConfigurationKeysOnly(raw) ==
    \/ toNonEmptyString(raw.apiKey) # <<>>
    \/ toNonEmptyString(raw.openaiApiKey) # <<>>

hasLegacyConfiguration(raw) ==
    \/ toNonEmptyString(raw.apiKey) # <<>>
    \/ toNonEmptyString(raw.openaiApiKey) # <<>>
    \/ toNonEmptyString(raw.apiBaseUrl) # <<>>
    \/ toNonEmptyString(raw.apiProtocol) # <<>>
    \/ toNonEmptyString(raw.openaiModel) # <<>>

buildLegacyProfile(raw, env, id) ==
    LET protocol == parseLegacyProtocol(toNonEmptyString(raw.apiProtocol))
        kind == mapLegacyProtocolToKind(protocol)
    IN  ResolvedProfile(id, kind,
                        Or(toNonEmptyString(raw.openaiModel), defaultModelForKind(kind, env)),
                        Or(toNonEmptyString(raw.apiBaseUrl), defaultBaseUrlForKind(kind, env)),
                        TRUE)

\* the profile list without the filter on enabled
EnabledProfilesAll(ps) == ps

\* profiles.filter((profile) => profile.enabled)
EnabledProfiles(ps) == SelectSeq(ps, LAMBDA profile : profile.enabled)

resolveExtensionSettings(raw, env) ==
    LET parsed == parseProviderProfiles(raw, env)
        hasLegacyValues == hasLegacyConfiguration(raw)
        resolved ==
            IF Len(parsed) = 0
            THEN <<buildLegacyProfile(raw, env, IF hasLegacyValues
                                                THEN <<"legacy-default">>
                                                ELSE <<"default">>)>>
            ELSE parsed
        enabledProfiles == EnabledProfiles(resolved)
        activeProfileSetting == Or(toNonEmptyString(raw.activeProfile), <<"default">>)
        fallbackProfiles == toStringArray(raw.fallbackProfiles)
        executionOrder ==
            buildExecutionOrder(enabledProfiles, activeProfileSetting, fallbackProfiles)
    IN  [profiles         |-> resolved,
         executionOrder   |-> executionOrder,
         activeProfile    |-> IF executionOrder # <<>> THEN executionOrder[1].id
                              ELSE IF enabledProfiles # <<>> THEN enabledProfiles[1].id
                              ELSE <<>>,
         fallbackProfiles |-> fallbackProfiles,
         usedLegacyConfig |-> Len(parsed) = 0 /\ hasLegacyValues]

\* The entries of providerProfiles: for each of two ids (one written with a
\* leading blank) and each value of enabled, an azureOpenai entry without and
\* with baseUrl, an ollama entry with neither model nor baseUrl and an entry of
\* an unknown kind; an entry without id; and an entry that is not an object.
RawNode(object, id, kind, model, baseUrl, enabled) ==
    [object |-> object, id |-> id, kind |-> kind, model |-> model,
     baseUrl |-> baseUrl, enabled |-> enabled]

NodeChoices ==
    UNION {{RawNode(TRUE, id, <<"azureOpenai">>, NoValue, <<" ">>, enabled),
            RawNode(TRUE, id, <<"azureOpenai">>, <<"m">>, <<"u">>, enabled),
            RawNode(TRUE, id, <<"ollama">>, NoValue, NoValue, enabled),
            RawNode(TRUE, id, <<"bogus">>, <<"m">>, <<"u">>, enabled)} :
           <<id, enabled>> \in {<<"a">>, <<" ", "b">>} \X {"true", "false", "absent"}}
      \cup {RawNode(TRUE, NotAString, <<"ollama">>, NoValue, NoValue, "true"),
            RawNode(FALSE, NoValue, NoValue, NoValue, NoValue, "absent")}

ActiveChoices == {NoValue, <<"a">>, <<"b">>}

FallbackChoices ==
    {<<>>, <<<<"a">>>>, <<<<"b">>>>, <<<<"b">>, <<"a">>>>, <<<<"a">>, <<" ", "a">>>>,
     <<NotAString, <<"b">>>>}

EnvKeys ==
    {"ANTHROPIC_BASE_URL", "GEMINI_BASE_URL", "OLLAMA_BASE_URL", "AZURE_OPENAI_BASE_URL",
     "OPENAI_BASE_URL", "ANTHROPIC_MODEL", "GEMINI_MODEL", "OLLAMA_MODEL",
     "AZURE_OPENAI_MODEL", "OPENAI_MODEL"}

\* the environment: no variable set, every variable set, every variable blank
EnvChoices == {[k \in EnvKeys |-> v] : v \in {NoValue, <<"e">>, <<" ">>}}

\* raw settings with a providerProfiles array and no legacy key
ProfileSettings ==
    [profilesIsArray : {TRUE},
     providerProfiles : SeqsUpTo(NodeChoices, MaxRawProfiles),
     activeProfile : ActiveChoices, fallbackProfiles : FallbackChoices,
     apiKey : {NoValue}, openaiApiKey : {NoValue}, apiBaseUrl : {NoValue},
     apiProtocol : {NoValue}, openaiModel : {NoValue}]

\* raw settings without a providerProfiles array, with every legacy key
LegacySettings ==
    [profilesIsArray : {FALSE}, providerProfiles : {<<>>},
     activeProfile : ActiveChoices, fallbackProfiles : {<<>>, <<<<"a">>>>},
     apiKey : {NoValue, <<"k">>}, openaiApiKey : {NoValue},
     apiBaseUrl : {NoValue, <<" ">>, <<"u">>},
     apiProtocol : {NoValue, <<"responses">>, <<"anthropicMessages">>, <<"bogus">>},
     openaiModel : {NoValue, <<"m">>}]

InitResolve ==
    /\ ChainIdle
    /\ fnArg \in [raw : ProfileSettings \cup LegacySettings, env : EnvChoices]
    /\ fnOut = FALSE
    /\ fnDone = FALSE
    /\ parked = NoInvocation
    /\ running = 1

\* resolveExtensionSettings(raw, env) is called
CallResolveExtensionSettings ==
    /\ ~fnDone
    /\ fnOut' = resolveExtensionSettings(fnArg.raw, fnArg.env)
    /\ fnDone' = TRUE
    /\ UNCHANGED <<fnArg, chainVars, schedVars>>

NextResolve == CallResolveExtensionSettings

SpecResolve == InitResolve /\ [][NextResolve]_vars

(***************************************************************************)
(* buildCommitMessage (src/extension.ts): one generation, evaluated on the *)
(* answers of its collaborators: collectCommitContext (git), the resolved  *)
(* settings and executeProviderChain. Texts are sequences of tokens; the   *)
(* token "\n\n" is a blank line.                                           *)
(***************************************************************************)
BoolText(b) == IF b THEN "true" ELSE "false"

\* a failure record as formatFailureReason reads it; status NoStatus is a
\* record without a numeric status
FailureRecord(provider, profileId, status, attemptNo, retryable, error) ==
    [provider |-> provider, profileId |-> profileId, status |-> status,
     attempt |-> attemptNo, retryable |-> retryable, error |-> error]

formatFailureReasonAlwaysStatus(failure) ==
    <<failure.provider, "/", failure.profileId>>
        \o <<" status=", ToString(failure.status)>>
        \o <<" attempt=", ToString(failure.attempt),
             " retryable=", BoolText(failure.retryable),
             " error=", failure.error>>

formatFailureReason(failure) ==
    LET status == IF failure.status # NoStatus
                  THEN <<" status=", ToString(failure.status)>>
                  ELSE <<>>
    IN  <<failure.provider, "/", failure.profileId>>
            \o status
            \o <<" attempt=", ToString(failure.attempt),
                 " retryable=", BoolText(failure.retryable),
                 " error=", failure.error>>

RECURSIVE JoinTexts(_, _)
JoinTexts(texts, sep) ==
    IF Len(texts) = 0 THEN <<>>
    ELSE IF Len(texts) = 1 THEN texts[1]
    ELSE texts[1] \o <<sep>> \o JoinTexts(Tail(texts), sep)

summarizeFailures(fs) ==
    JoinTexts([i \in 1..Len(fs) |-> formatFailureReason(fs[i])], "; ")

\* staged files, after the ignored lock files are filtered out
FileChoices == {"README.md", "src/a.ts", "src/a.test.ts", "package.json"}
DirOf(file) == IF file \in {"src/a.ts", "src/a.test.ts"} THEN "src" ELSE ""
\* file.includes("test") || file.endsWith(".snap"), on the lower-cased name
IsTest(file) == file = "src/a.test.ts"
IsReadme(file) == file = "README.md"
IsDocs(file) == DirOf(file) = "docs"
\* file.endsWith("package.json") and the two lock files
IsManifest(file) == file = "package.json"

\* every() of an empty list is true: no file at all is type "test"
inferType(files, patch) ==
    IF \A i \in 1..Len(files) : IsTest(files[i])
    THEN "test"
    ELSE IF \A i \in 1..Len(files) : IsReadme(files[i]) \/ IsDocs(files[i])
    THEN "docs"
    ELSE IF \E i \in 1..Len(files) : IsManifest(files[i])
    THEN "chore"
    ELSE IF patch = "fix" THEN "fix" ELSE "feat"

inferScope(files) == DirOf(files[1])

buildDetailedBody(files, patch) ==
    <<"- files: ">> \o SubSeq(files, 1, Min(3, Len(files)))
        \o <<"\n", "- stats", "\n", "- content", "\n", "- scope">>

buildRuleBasedMessage(files, patch) ==
    LET type == inferType(files, patch)
        scope == inferScope(files)
        header == IF scope # "" THEN <<type, "(", scope, ")", ": ", "subject">>
                  ELSE <<type, ": ", "subject">>
    IN  header \o <<"\n\n">> \o buildDetailedBody(files, patch)

\* the message with every blank-line token written as its two line breaks
RECURSIVE LineBreaks(_)
LineBreaks(message) ==
    IF Len(message) = 0 THEN <<>>
    ELSE (IF message[1] = "\n\n" THEN <<"\n", "\n">> ELSE <<message[1]>>)
             \o LineBreaks(Tail(message))

\* where the first match of the separator (two line breaks) starts, 0 if none
FirstSeparator(text) ==
    LET starts == {i \in 1..(Len(text) - 1) : text[i] = "\n" /\ text[i + 1] = "\n"}
    IN  IF starts = {} THEN 0 ELSE CHOOSE i \in starts : \A j \in starts : i <= j

\* message.split(separator): parts.length > 1 and parts[1].trim() is not
\* empty; trim removes blanks and line breaks (no carriage return in a text)
hasCommitBody(message) ==
    LET text == LineBreaks(message)
        first == FirstSeparator(text)
        rest == SubSeq(text, first + 2, Len(text))
        second == FirstSeparator(rest)
        part == IF second = 0 THEN rest ELSE SubSeq(rest, 1, second - 1)
    IN  first # 0 /\ Len(Trim(part)) > 0

\* the answer of executeProviderChain: a success, only failures, or a
\* rejected promise
ChainSuccess(message) == [kind |-> "success", message |-> message, failures |-> <<>>]
ChainFailures(fs) == [kind |-> "failures", message |-> <<>>, failures |-> fs]
ChainRejected == [kind |-> "rejected", message |-> <<>>, failures |-> <<>>]

FailureChoices ==
    <<FailureRecord("openaiCompat", "primary", 429, 1, TRUE, "rate limit"),
      FailureRecord("anthropic", "fallback", NoStatus, 2, FALSE, "invalid request")>>

ChainAnswers ==
    {ChainSuccess(<<"feat: x">>),
     ChainSuccess(<<"feat: x", "\n\n", "- body">>),
     ChainSuccess(<<"feat: x", "\n\n", "\n\n", "- body">>),
     ChainSuccess(<<"feat: x", "\n\n", " ", "\n", " ">>),
     ChainSuccess(<<"feat: x", "\n", "\n", "- body">>),
     ChainRejected}
    \cup {ChainFailures(fs) : fs \in {<<>>, SubSeq(FailureChoices, 1, 1),
                                       SubSeq(FailureChoices, 2, 2), FailureChoices}}

AiResult(threw, message, reason) ==
    [threw |-> threw, message |-> message, reason |-> reason]

\* settings: "throws" (loadResolvedSettings fails), "empty" (no enabled
\* profile in the execution order) or "profiles"
generateWithProviders(settings, chain) ==
    IF settings = "throws" THEN AiResult(TRUE, <<>>, <<>>)
    ELSE IF settings = "empty"
    THEN AiResult(FALSE, <<>>, <<"no_enabled_profiles">>)
    ELSE IF chain.kind = "rejected" THEN AiResult(TRUE, <<>>, <<>>)
    ELSE IF chain.kind = "success" THEN AiResult(FALSE, chain.message, <<>>)
    ELSE AiResult(FALSE, <<>>,
                  Or(summarizeFailures(chain.failures), <<"all_providers_failed">>))

BuildResult(message, source, reason) ==
    [message |-> message, source |-> source, reason |-> reason]

BuildRejected == BuildResult(<<>>, "rejected", <<>>)

buildCommitMessageNoFallback(git, settings, chain) ==
    IF git.failed = "nameOnly" THEN BuildRejected
    ELSE IF Len(git.files) = 0
    THEN BuildResult(<<>>, "fallback", <<"no_changes">>)
    ELSE IF git.failed = "diff" THEN BuildRejected
    ELSE LET aiResult == generateWithProviders(settings, chain)
         IN  IF aiResult.threw
             THEN BuildResult(<<>>, "fallback", <<"ai_error: ", "detail">>)
             ELSE IF Len(aiResult.message) > 0
             THEN BuildResult(aiResult.message, "ai", <<>>)
             ELSE BuildResult(<<>>, "fallback", aiResult.reason)

\* collectCommitContext is awaited before the try block, so a failing git
\* command rejects buildCommitMessage: git.failed = "nameOnly" is the listing
\* of the staged files failing, git.failed = "diff" the diff of a non-empty
\* staged list failing (with an empty list that command is not run)
buildCommitMessage(git, settings, chain) ==
    IF git.failed = "nameOnly" THEN BuildRejected
    ELSE IF Len(git.files) = 0
    THEN BuildResult(<<>>, "fallback", <<"no_changes">>)
    ELSE IF git.failed = "diff" THEN BuildRejected
    ELSE LET aiResult == generateWithProviders(settings, chain)
             fallback == buildRuleBasedMessage(git.files, git.diff)
         IN  IF aiResult.threw
             THEN BuildResult(fallback, "fallback", <<"ai_error: ", "detail">>)
             ELSE IF Len(aiResult.message) > 0
             THEN BuildResult(
                      IF hasCommitBody(aiResult.message) THEN aiResult.message
                      ELSE aiResult.message \o <<"\n\n">>
                               \o buildDetailedBody(git.files, git.diff),
                      "ai", <<>>)
             ELSE BuildResult(fallback, "fallback",
                              Or(aiResult.reason, <<"ai_empty_or_invalid">>))

\* what the two git commands of collectCommitContext answer: which of them
\* fails, the staged files left after filtering, and the kind of diff
GitAnswers ==
    [failed : {"none", "nameOnly", "diff"},
     files : {<<>>, <<"README.md">>, <<"src/a.ts">>, <<"src/a.ts", "README.md">>,
              <<"src/a.test.ts">>, <<"package.json", "src/a.ts">>},
     diff : {"fix", "plain"}]

SettingsAnswers == {"throws", "empty", "profiles"}

InitBuild ==
    /\ ChainIdle
    /\ parked = NoInvocation
    /\ running = 1
    /\ fnArg \in [git : GitAnswers, settings : SettingsAnswers, chain : ChainAnswers]
    /\ fnOut = BuildRejected
    /\ fnDone = FALSE

CallBuildCommitMessage ==
    /\ ~fnDone
    /\ fnOut' = buildCommitMessage(fnArg.git, fnArg.settings, fnArg.chain)
    /\ fnDone' = TRUE
    /\ UNCHANGED <<fnArg, chainVars, schedVars>>

NextBuild == CallBuildCommitMessage

SpecBuild == InitBuild /\ [][NextBuild]_vars

(***************************************************************************)
(* URL helpers (src/ai/url.ts). A URL is a sequence of tokens; "/" is the  *)
(* slash character, "V1" is the upper-case spelling of "v1".               *)
(***************************************************************************)
normalizeBaseUrlOneSlash(url) ==
    IF Len(url) > 0 /\ url[Len(url)] = "/" THEN SubSeq(url, 1, Len(url) - 1) ELSE url

\* url.replace(/\/+$/, ""): every trailing slash is removed
RECURSIVE normalizeBaseUrl(_)
normalizeBaseUrl(url) ==
    IF Len(url) > 0 /\ url[Len(url)] = "/"
    THEN normalizeBaseUrl(SubSeq(url, 1, Len(url) - 1))
    ELSE url

RECURSIVE TrimLeadingSlashes(_)
TrimLeadingSlashes(value) ==
    IF Len(value) > 0 /\ value[1] = "/" THEN TrimLeadingSlashes(Tail(value)) ELSE value

trimSlashes(value) == normalizeBaseUrl(TrimLeadingSlashes(value))

StartsWithSlash(value) == Len(value) > 0 /\ value[1] = "/"

ensureLeadingSlash(value) == IF StartsWithSlash(value) THEN value ELSE <<"/">> \o value

LowerToken(t) == IF t = "V1" THEN "v1" ELSE t
toLowerCase(s) == [i \in 1..Len(s) |-> LowerToken(s[i])]

EndsWith(s, suffix) ==
    /\ Len(suffix) <= Len(s)
    /\ SubSeq(s, Len(s) - Len(suffix) + 1, Len(s)) = suffix

joinUrl(baseUrl, suffix) ==
    IF StartsWithSlash(suffix) THEN normalizeBaseUrl(baseUrl) \o suffix
    ELSE normalizeBaseUrl(baseUrl) \o <<"/">> \o suffix

joinVersionedPathAlwaysInserts(baseUrl, versionSegment, pathAfterVersion) ==
    LET base == normalizeBaseUrl(baseUrl)
        version == trimSlashes(versionSegment)
        path == ensureLeadingSlash(pathAfterVersion)
    IN  IF Len(version) = 0 THEN base \o path
        ELSE base \o <<"/">> \o version \o path

joinVersionedPath(baseUrl, versionSegment, pathAfterVersion) ==
    LET base == normalizeBaseUrl(baseUrl)
        version == trimSlashes(versionSegment)
        path == ensureLeadingSlash(pathAfterVersion)
        versionSuffix == <<"/">> \o version
    IN  IF Len(version) = 0 THEN base \o path
        ELSE IF EndsWith(toLowerCase(base), toLowerCase(versionSuffix))
        THEN base \o path
        ELSE base \o versionSuffix \o path

UrlTokens == {"/", "x", "v1"}
UrlStrings == SeqsUpTo(UrlTokens, MaxUrlLen)

InitNormalize ==
    /\ ChainIdle
    /\ parked = NoInvocation
    /\ running = 1
    /\ fnArg \in UrlStrings
    /\ fnOut = <<>>
    /\ fnDone = FALSE

\* normalizeBaseUrl(x) and normalizeBaseUrl(normalizeBaseUrl(x)) are evaluated
CallNormalizeBaseUrl ==
    /\ ~fnDone
    /\ fnOut' = <<normalizeBaseUrl(fnArg), normalizeBaseUrl(normalizeBaseUrl(fnArg))>>
    /\ fnDone' = TRUE
    /\ UNCHANGED <<fnArg, chainVars, schedVars>>

NextNormalize == CallNormalizeBaseUrl

SpecNormalize == InitNormalize /\ [][NextNormalize]_vars

BaseTokens == {"/", "x", "v1", "V1"}
BaseChoices == SeqsUpTo(BaseTokens, MaxBaseLen)
VersionChoices == {<<>>, <<"v1">>, <<"V1">>, <<"/", "v1">>, <<"v1", "/">>, <<"v1", "/", "x">>}
PathChoices == {<<"p">>, <<"/", "p">>}

InitJoin ==
    /\ ChainIdle
    /\ parked = NoInvocation
    /\ running = 1
    /\ fnArg \in [base : BaseChoices, version : VersionChoices, path : PathChoices]
    /\ fnOut = <<>>
    /\ fnDone = FALSE

\* joinVersionedPath(b, v, p) and joinVersionedPath(b + "/" + v, v, p)
CallJoinVersionedPath ==
    /\ ~fnDone
    /\ fnOut' = <<joinVersionedPath(fnArg.base, fnArg.version, fnArg.path),
                  joinVersionedPath(fnArg.base \o <<"/">> \o fnArg.version,
                                    fnArg.version, fnArg.path)>>
    /\ fnDone' = TRUE
    /\ UNCHANGED <<fnArg, chainVars, schedVars>>

NextJoin == CallJoinVersionedPath

SpecJoin == InitJoin /\ [][NextJoin]_vars

(***************************************************************************)
(* Decoded JSON values and the adapters' parseResponse. A value is a       *)
(* record: t is its type ("undefined" for an absent value), s the text of  *)
(* a string, items the fields of an object (key, value) or the elements of *)
(* an array (key "", value).                                               *)
(***************************************************************************)
JUndefined == [t |-> "undefined", s |-> <<>>, items |-> <<>>]
JNull == [t |-> "null", s |-> <<>>, items |-> <<>>]
JNumber == [t |-> "number", s |-> <<>>, items |-> <<>>]
JFalse == [t |-> "boolean", s |-> <<>>, items |-> <<>>]
JTrue == [t |-> "boolean", s |-> <<"true">>, items |-> <<>>]
JBool(b) == IF b THEN JTrue ELSE JFalse
JString(s) == [t |-> "string", s |-> s, items |-> <<>>]
JField(key, value) == [key |-> key, value |-> value]
JObject(fields) == [t |-> "object", s |-> <<>>, items |-> fields]
JArray(values) ==
    [t |-> "array", s |-> <<>>,
     items |-> [i \in 1..Len(values) |-> JField("", values[i])]]

asRecord(value) == IF value.t = "object" THEN value ELSE JUndefined

\* record?.key on the result of asRecord
Field(record, key) ==
    IF record.t = "object" /\ \E i \in 1..Len(record.items) : record.items[i].key = key
    THEN record.items[CHOOSE i \in 1..Len(record.items) : record.items[i].key = key].value
    ELSE JUndefined

asArray(value) ==
    IF value.t = "array" THEN [i \in 1..Len(value.items) |-> value.items[i].value]
    ELSE <<>>

\* array[0]
First(array) == IF Len(array) > 0 THEN array[1] ELSE JUndefined

asStringNoTypeCheck(value) ==
    IF value.t = "string" THEN value.s
    ELSE IF value.t \in {"undefined", "null"} THEN <<>>
    ELSE NotAString

asString(value) == IF value.t = "string" THEN value.s ELSE <<>>

\* for (const item of items) { text = asString(asRecord(item)?.text); if (text) return text }
RECURSIVE FirstText(_)
FirstText(items) ==
    IF Len(items) = 0 THEN <<>>
    ELSE LET text == asString(Field(asRecord(items[1]), "text"))
         IN  IF Len(text) > 0 THEN text ELSE FirstText(Tail(items))

\* the texts pushed by geminiAdapter.parseResponse, in order
RECURSIVE PartTexts(_)
PartTexts(parts) ==
    IF Len(parts) = 0 THEN <<>>
    ELSE LET text == asString(Field(asRecord(parts[1]), "text"))
         IN  IF Len(text) > 0 THEN <<text>> \o PartTexts(Tail(parts))
             ELSE PartTexts(Tail(parts))

geminiParseResponseFirstPart(data) ==
    LET content == asRecord(Field(asRecord(First(asArray(Field(asRecord(data), "candidates")))),
                                  "content"))
    IN  Trim(FirstText(asArray(Field(content, "parts"))))

geminiParseResponse(data) ==
    LET root == asRecord(data)
        candidates == asArray(Field(root, "candidates"))
        firstCandidate == asRecord(First(candidates))
        content == asRecord(Field(firstCandidate, "content"))
        parts == asArray(Field(content, "parts"))
    IN  Trim(JoinTexts(PartTexts(parts), "\n"))

openaiCompatParseResponse(data) ==
    LET root == asRecord(data)
        choices == asArray(Field(root, "choices"))
        firstChoice == asRecord(First(choices))
        message == asRecord(Field(firstChoice, "message"))
        content == Field(message, "content")
    IN  IF content.t = "string" THEN content.s ELSE FirstText(asArray(content))

azureOpenaiParseResponse(data) ==
    LET root == asRecord(data)
        choices == asArray(Field(root, "choices"))
        firstChoice == asRecord(First(choices))
        message == asRecord(Field(firstChoice, "message"))
        content == Field(message, "content")
    IN  IF content.t = "string" THEN content.s ELSE FirstText(asArray(content))

anthropicParseResponse(data) ==
    FirstText(asArray(Field(asRecord(data), "content")))

\* the scan stopping after the first output item
OutputChunksFirstItemOnly(output) ==
    IF Len(output) = 0 THEN <<>>
    ELSE asArray(Field(asRecord(output[1]), "content"))

\* the content chunks of every output item, in order
RECURSIVE OutputChunks(_)
OutputChunks(output) ==
    IF Len(output) = 0 THEN <<>>
    ELSE asArray(Field(asRecord(output[1]), "content")) \o OutputChunks(Tail(output))

\* parseResponse of openaiResponses without the output_text shortcut
openaiResponsesParseResponseNoOutputText(data) ==
    FirstText(OutputChunks(asArray(Field(asRecord(data), "output"))))

openaiResponsesParseResponse(data) ==
    LET root == asRecord(data)
        outputText == asString(Field(root, "output_text"))
    IN  IF Len(outputText) > 0 THEN outputText
        ELSE FirstText(OutputChunks(asArray(Field(root, "output"))))

ollamaParseResponse(data) ==
    LET root == asRecord(data)
        message == asRecord(Field(root, "message"))
    IN  asString(Field(message, "content"))

\* getProviderAdapter(kind).parseResponse(data)
AdapterParseResponse(kind, data) ==
    CASE kind = "openaiCompat"    -> openaiCompatParseResponse(data)
      [] kind = "openaiResponses" -> openaiResponsesParseResponse(data)
      [] kind = "anthropic"       -> anthropicParseResponse(data)
      [] kind = "azureOpenai"     -> azureOpenaiParseResponse(data)
      [] kind = "gemini"          -> geminiParseResponse(data)
      [] kind = "ollama"          -> ollamaParseResponse(data)

\* the path from the root of a provider's response to its text: object keys,
\* "[]" for the first element of an array
TextPath(kind) ==
    CASE kind = "openaiCompat"    -> <<"choices", "[]", "message", "content">>
      [] kind = "azureOpenai"     -> <<"choices", "[]", "message", "content">>
      [] kind = "openaiResponses" -> <<"output_text">>
      [] kind = "anthropic"       -> <<"content", "[]", "text">>
      [] kind = "gemini"          -> <<"candidates", "[]", "content", "parts", "[]", "text">>
      [] kind = "ollama"          -> <<"message", "content">>

\* the value that holds leaf at the end of path
RECURSIVE Wrap(_, _)
Wrap(path, leaf) ==
    IF Len(path) = 0 THEN leaf
    ELSE IF path[1] = "[]" THEN JArray(<<Wrap(Tail(path), leaf)>>)
    ELSE JObject(<<JField(path[1], Wrap(Tail(path), leaf))>>)

\* the answer text wrapped in the response shape of the provider
ResponseShape(kind, text) == Wrap(TextPath(kind), JString(text))

AnswerTexts ==
    {<<>>, <<"ok">>, <<" ", "ok">>, <<"ok", " ">>, <<"line1", "\n", "line2">>, <<" ">>}

\* values of the wrong type, or without the expected field
JunkValues ==
    {JNull, JNumber, JString(<<"junk">>), JArray(<<>>), JObject(<<>>),
     JArray(<<JNull>>), JObject(<<JField("other", JString(<<"junk">>))>>)}

TextPaths ==
    {TextPath(kind) : kind \in ProviderKind}
        \cup {<<"output", "[]", "content", "[]", "text">>,
              <<"choices", "[]", "message", "content", "[]", "text">>}

\* a response shape cut at some depth, with a junk value in place of the rest
FaultyResponses ==
    UNION {{Wrap(SubSeq(path, 1, d), junk) : d \in 0..Len(path), junk \in JunkValues} :
              path \in TextPaths}

PartChoices ==
    {JObject(<<JField("text", JString(<<"line1">>))>>),
     JObject(<<JField("text", JString(<<"line2">>))>>),
     JObject(<<JField("text", JString(<<>>))>>),
     JObject(<<JField("text", JString(<<"line3", " ">>))>>),
     JObject(<<JField("text", JNumber)>>),
     JNumber}

\* gemini responses whose first candidate has any list of parts
MultiPartResponses ==
    {Wrap(<<"candidates", "[]", "content", "parts">>, JArray(parts)) :
        parts \in SeqsUpTo(PartChoices, MaxParts)}

ResponseChoices ==
    {Wrap(path, JString(text)) : path \in TextPaths, text \in AnswerTexts}
        \cup FaultyResponses \cup MultiPartResponses

InitParse ==
    /\ ChainIdle
    /\ parked = NoInvocation
    /\ running = 1
    /\ fnArg \in [kind : ProviderKind, data : ResponseChoices]
    /\ fnOut = <<>>
    /\ fnDone = FALSE

\* getProviderAdapter(kind).parseResponse(data) is called
CallParseResponse ==
    /\ ~fnDone
    /\ fnOut' = AdapterParseResponse(fnArg.kind, fnArg.data)
    /\ fnDone' = TRUE
    /\ UNCHANGED <<fnArg, chainVars, schedVars>>

NextParse == CallParseResponse

SpecParse == InitParse /\ [][NextParse]_vars

(***************************************************************************)
(* The adapter registry and the adapters' buildRequest. Headers are an     *)
(* object: a sequence of (key, value) entries with distinct keys, in       *)
(* insertion order.                                                        *)
(***************************************************************************)
openaiCompatAdapter == [kind |-> "openaiCompat"]
openaiResponsesAdapter == [kind |-> "openaiResponses"]
anthropicAdapter == [kind |-> "anthropic"]
azureOpenaiAdapter == [kind |-> "azureOpenai"]
geminiAdapter == [kind |-> "gemini"]
ollamaAdapter == [kind |-> "ollama"]

ADAPTERS ==
    [kind \in ProviderKind |->
        CASE kind = "openaiCompat"    -> openaiCompatAdapter
          [] kind = "openaiResponses" -> openaiResponsesAdapter
          [] kind = "anthropic"       -> anthropicAdapter
          [] kind = "azureOpenai"     -> azureOpenaiAdapter
          [] kind = "gemini"          -> geminiAdapter
          [] kind = "ollama"          -> ollamaAdapter]

\* a registry whose openaiResponses entry is the openaiCompat adapter
getProviderAdapterShared(kind) ==
    IF kind = "openaiResponses" THEN openaiCompatAdapter ELSE ADAPTERS[kind]

getProviderAdapter(kind) == ADAPTERS[kind]

Header(key, value) == [key |-> key, value |-> value]

HasHeader(headers, key) == \E i \in 1..Len(headers) : headers[i].key = key

HeaderValue(headers, key) ==
    IF HasHeader(headers, key)
    THEN headers[CHOOSE i \in 1..Len(headers) : headers[i].key = key].value
    ELSE NoValue

\* { ...extra, ...defaults }: the adapter's headers written last
SpreadDefaultsLast(defaults, extra) ==
    SelectSeq(extra, LAMBDA h : ~HasHeader(defaults, h.key)) \o defaults

\* { ...defaults, ...extra }: a later entry replaces the value of an equal
\* key in place, a new key is appended
Spread(defaults, extra) ==
    [i \in 1..Len(defaults) |->
        IF HasHeader(extra, defaults[i].key)
        THEN Header(defaults[i].key, HeaderValue(extra, defaults[i].key))
        ELSE defaults[i]]
        \o SelectSeq(extra, LAMBDA h : ~HasHeader(defaults, h.key))

\* encodeURIComponent, token by token: "k/1" holds a slash, " " is a blank
EncodeToken(t) ==
    IF t = "k/1" THEN "k%2F1" ELSE IF t = " " THEN "%20" ELSE t

encodeURIComponent(s) == [i \in 1..Len(s) |-> EncodeToken(s[i])]

\* the headers an adapter writes before profile.extraHeaders
DefaultHeaders(kind, apiKey) ==
    CASE kind \in {"openaiCompat", "openaiResponses"} ->
            <<Header("Authorization", <<"Bearer ">> \o apiKey),
              Header("Content-Type", <<"application/json">>)>>
      [] kind = "anthropic" ->
            <<Header("x-api-key", apiKey),
              Header("Authorization", <<"Bearer ">> \o apiKey),
              Header("anthropic-version", <<"2023-06-01">>),
              Header("Content-Type", <<"application/json">>)>>
      [] kind = "azureOpenai" ->
            <<Header("api-key", apiKey),
              Header("Content-Type", <<"application/json">>)>>
      [] kind \in {"gemini", "ollama"} ->
            <<Header("Content-Type", <<"application/json">>)>>

EndpointOf(kind, profile) ==
    CASE kind = "openaiCompat" ->
            joinVersionedPath(profile.baseUrl, <<"v1">>, <<"chat/completions">>)
      [] kind = "openaiResponses" ->
            joinVersionedPath(profile.baseUrl, <<"v1">>, <<"responses">>)
      [] kind = "anthropic" ->
            joinVersionedPath(profile.baseUrl, <<"v1">>, <<"messages">>)
      [] kind = "azureOpenai" ->
            LET baseUrl == normalizeBaseUrl(profile.baseUrl)
                azureBase == IF EndsWith(toLowerCase(baseUrl), <<"/", "openai">>)
                             THEN baseUrl ELSE baseUrl \o <<"/", "openai">>
            IN  azureBase \o <<"/", "deployments", "/">>
                    \o encodeURIComponent(Trim(profile.azureDeployment))
                    \o <<"/", "chat/completions", "?api-version=">>
                    \o encodeURIComponent(profile.azureApiVersion)
      [] kind = "gemini" ->
            joinVersionedPath(profile.baseUrl, profile.geminiApiVersion,
                              <<"models", "/">> \o encodeURIComponent(profile.model)
                                  \o <<":generateContent">>)
                \o <<"?key=">> \o encodeURIComponent(Trim(profile.apiKey))
      [] kind = "ollama" -> joinUrl(profile.baseUrl, <<"/", "api/chat">>)

Prompt == <<"prompt">>

UserMessages(prompt) ==
    JArray(<<JObject(<<JField("role", JString(<<"user">>)),
                       JField("content", JString(prompt))>>)>>)

BodyOf(kind, profile, prompt) ==
    CASE kind = "openaiCompat" ->
            JObject(<<JField("model", JString(profile.model)),
                      JField("messages", UserMessages(prompt)),
                      JField("temperature", JNumber)>>)
      [] kind = "openaiResponses" ->
            JObject(<<JField("model", JString(profile.model)),
                      JField("input", JString(prompt)),
                      JField("temperature", JNumber)>>)
      [] kind = "anthropic" ->
            JObject(<<JField("model", JString(profile.model)),
                      JField("max_tokens", JNumber),
                      JField("temperature", JNumber),
                      JField("messages", UserMessages(prompt))>>)
      [] kind = "azureOpenai" ->
            JObject(<<JField("messages", UserMessages(prompt)),
                      JField("temperature", JNumber)>>)
      [] kind = "gemini" ->
            JObject(<<JField("contents",
                             JArray(<<JObject(<<JField("role", JString(<<"user">>)),
                                                JField("parts",
                                                       JArray(<<JObject(<<JField("text",
                                                                JString(prompt))>>)>>))>>)>>)),
                      JField("generationConfig",
                             JObject(<<JField("temperature", JNumber)>>))>>)
      [] kind = "ollama" ->
            JObject(<<JField("model", JString(profile.model)),
                      JField("stream", JFalse),
                      JField("options", JObject(<<JField("temperature", JNumber)>>)),
                      JField("messages", UserMessages(prompt))>>)

AdapterRequest(threw, endpoint, headers, body) ==
    [threw |-> threw, endpoint |-> endpoint, headers |-> headers, body |-> body]

RequestThrown == AdapterRequest(TRUE, <<>>, <<>>, JUndefined)

\* adapter.buildRequest({ profile, prompt, temperature })
AdapterBuildRequest(adapter, profile) ==
    IF BuildRequestThrows([profile EXCEPT !.kind = adapter.kind]) THEN RequestThrown
    ELSE LET apiKey == IF adapter.kind \in {"gemini", "ollama"} THEN <<>>
                       ELSE Trim(profile.apiKey)
         IN  AdapterRequest(FALSE,
                            EndpointOf(adapter.kind, profile),
                            Spread(DefaultHeaders(adapter.kind, apiKey),
                                   profile.extraHeaders),
                            BodyOf(adapter.kind, profile, Prompt))

ApiKeyChoices == {NoValue, <<"K">>, <<" ", "K">>, <<"k/1">>}

ExtraHeaderChoices ==
    {<<>>,
     <<Header("X-Custom", <<"1">>)>>,
     <<Header("Content-Type", <<"text/plain">>)>>,
     <<Header("content-type", <<"text/plain">>)>>,
     <<Header("Authorization", <<"Basic ">>), Header("X-Custom", <<"1">>)>>,
     <<Header("x-api-key", <<"other">>), Header("api-key", <<"other">>)>>}

RequestProfiles ==
    [id : {<<"p">>}, kind : ProviderKind, model : {<<"m">>},
     baseUrl : {<<"u">>, <<"u", "/">>, <<"u", "/", "v1">>},
     apiKey : ApiKeyChoices, extraHeaders : ExtraHeaderChoices,
     azureDeployment : DeploymentChoices, azureApiVersion : {<<"2024-10-21">>},
     geminiApiVersion : {<<"v1beta">>}]

InitRequest ==
    /\ ChainIdle
    /\ parked = NoInvocation
    /\ running = 1
    /\ fnArg \in RequestProfiles
    /\ fnOut = [adapter |-> [kind |-> ""], request |-> RequestThrown]
    /\ fnDone = FALSE

\* the executor's first two steps on a profile: getProviderAdapter(profile.kind)
\* and adapter.buildRequest
CallBuildRequest ==
    /\ ~fnDone
    /\ LET adapter == getProviderAdapter(fnArg.kind)
       IN  fnOut' = [adapter |-> adapter,
                     request |-> AdapterBuildRequest(adapter, fnArg)]
    /\ fnDone' = TRUE
    /\ UNCHANGED <<fnArg, chainVars, schedVars>>

NextRequest == CallBuildRequest

SpecRequest == InitRequest /\ [][NextRequest]_vars

(***************************************************************************)
(* formatFailureReason and summarizeFailures on lists of failure records.  *)
(***************************************************************************)
FailureSet ==
    {FailureRecord(provider, "p", status, attemptNo, retryable, "invalid request") :
        provider \in {"openaiCompat", "anthropic"}, status \in {NoStatus, 429, 500},
        attemptNo \in {1, 2}, retryable \in BOOLEAN}
        \cup Range(FailureChoices)

InitFormat ==
    /\ ChainIdle
    /\ parked = NoInvocation
    /\ running = 1
    /\ fnArg \in SeqsUpTo(FailureSet, MaxFailureList)
    /\ fnOut = <<>>
    /\ fnDone = FALSE

\* every record is formatted, twice, and the list is summarized
CallSummarizeFailures ==
    /\ ~fnDone
    /\ fnOut' = [first |-> [i \in 1..Len(fnArg) |-> formatFailureReason(fnArg[i])],
                 second |-> [i \in 1..Len(fnArg) |-> formatFailureReason(fnArg[i])],
                 summary |-> summarizeFailures(fnArg)]
    /\ fnDone' = TRUE
    /\ UNCHANGED <<fnArg, chainVars, schedVars>>

NextFormat == CallSummarizeFailures

SpecFormat == InitFormat /\ [][NextFormat]_vars

(***************************************************************************)
(* The structured logger of the extension (createStructuredLogger) and the *)
(* log entries of one attempt of executeProviderChain. A line of the       *)
(* output channel is a sequence of tokens.                                 *)
(***************************************************************************)
LogLevels == {"off", "normal", "debug", "trace"}

shouldWriteLog(logLevel, level) ==
    IF logLevel = "off" THEN FALSE
    ELSE IF logLevel = "normal" /\ level \in {"debug", "trace"} THEN FALSE
    ELSE IF logLevel = "debug" /\ level = "trace" THEN FALSE
    ELSE TRUE

\* /api[-_]?key|authorization|token|secret|password/i on the keys that occur
\* in the entries: the credential headers, and max_tokens of the anthropic body
isSensitiveKey(key) ==
    key \in {"Authorization", "x-api-key", "api-key", "max_tokens"}

Redacted == JString(<<"***">>)

\* redactUnknown with the sensitive-key test left out
RECURSIVE redactUnknownNothing(_, _)
redactUnknownNothing(value, keyHint) ==
    IF value.t \in {"array", "object"}
    THEN [value EXCEPT !.items =
              [i \in 1..Len(value.items) |->
                  JField(value.items[i].key,
                         redactUnknownNothing(value.items[i].value, value.items[i].key))]]
    ELSE value

\* an array element is redacted with the empty key hint, which is the key its
\* entry carries here
RECURSIVE redactUnknown(_, _)
redactUnknown(value, keyHint) ==
    IF isSensitiveKey(keyHint) THEN Redacted
    ELSE IF value.t \in {"array", "object"}
    THEN [value EXCEPT !.items =
              [i \in 1..Len(value.items) |->
                  JField(value.items[i].key,
                         redactUnknown(value.items[i].value, value.items[i].key))]]
    ELSE value

redactMeta(meta) ==
    [meta EXCEPT !.items =
        [i \in 1..Len(meta.items) |->
            JField(meta.items[i].key,
                   redactUnknown(meta.items[i].value, meta.items[i].key))]]

\* the escape JSON.stringify writes for a character of a string or key
Escape(token) ==
    CASE token = "\"" -> "\\\""
      [] token = "\\" -> "\\\\"
      [] token = "\n" -> "\\n"
      [] token = "\n\n" -> "\\n\\n"
      [] token = "\t" -> "\\t"
      [] token = "\r" -> "\\r"
      [] OTHER -> token

Quote(s) == <<"\"">> \o [i \in 1..Len(s) |-> Escape(s[i])] \o <<"\"">>

\* JSON.stringify: the items are separated by commas; a member whose value is
\* undefined is left out, an element that is undefined is written as null;
\* JSON.stringify(undefined) is undefined
RECURSIVE Stringify(_)
RECURSIVE StringifyItems(_, _)
StringifyItems(items, isObject) ==
    IF Len(items) = 0 THEN <<>>
    ELSE LET item == items[1]
             rest == StringifyItems(Tail(items), isObject)
             text == IF isObject
                     THEN Quote(<<item.key>>) \o <<":">> \o Stringify(item.value)
                     ELSE IF item.value.t = "undefined" THEN <<"null">>
                     ELSE Stringify(item.value)
         IN  IF isObject /\ item.value.t = "undefined" THEN rest
             ELSE IF Len(rest) = 0 THEN text
             ELSE text \o <<",">> \o rest

Stringify(value) ==
    CASE value.t = "string"    -> Quote(value.s)
      [] value.t = "number"    -> <<"0">>
      [] value.t = "boolean"   -> IF value = JTrue THEN <<"true">> ELSE <<"false">>
      [] value.t = "object"    -> <<"{">> \o StringifyItems(value.items, TRUE) \o <<"}">>
      [] value.t = "array"     -> <<"[">> \o StringifyItems(value.items, FALSE) \o <<"]">>
      [] value.t = "undefined" -> NoValue
      [] OTHER                 -> <<"null">>

LogEntry(level, message, meta) == [level |-> level, message |-> message, meta |-> meta]

\* the lines logger.log(entry) appends to the output channel: none or one; an
\* entry without meta (undefined or null) is written without a payload
LoggerLog(logLevel, redactSensitive, entry) ==
    IF ~shouldWriteLog(logLevel, entry.level) THEN <<>>
    ELSE IF entry.meta.t \in {"undefined", "null"}
    THEN <<(<<"[", entry.level, "] ", entry.message>>)>>
    ELSE LET payload == IF redactSensitive THEN redactMeta(entry.meta) ELSE entry.meta
         IN  <<(<<"[", entry.level, "] ", entry.message, " ">> \o Stringify(payload))>>

RECURSIVE LogAll(_, _, _)
LogAll(logLevel, redactSensitive, entries) ==
    IF Len(entries) = 0 THEN <<>>
    ELSE LoggerLog(logLevel, redactSensitive, entries[1])
             \o LogAll(logLevel, redactSensitive, Tail(entries))

HeadersObject(headers) ==
    JObject([i \in 1..Len(headers) |-> JField(headers[i].key, JString(headers[i].value))])

\* provider, profile, endpoint, attempt: the fields the executor's entries
\* start with
EntryContext(profile, endpoint) ==
    <<JField("provider", JString(<<profile.kind>>)),
      JField("profile", JString(profile.id)),
      JField("endpoint", JString(endpoint)),
      JField("attempt", JNumber)>>

\* {...traceContext, endpoint}: the fields the entries of postJson start with
TraceContext(profile, endpoint) ==
    <<JField("provider", JString(<<profile.kind>>)),
      JField("profile", JString(profile.id)),
      JField("attempt", JNumber),
      JField("totalAttempts", JNumber),
      JField("endpoint", JString(endpoint))>>

RequestEntries(profile, request) ==
    <<LogEntry("debug", "provider_request",
               JObject(EntryContext(profile, request.endpoint)
                   \o <<JField("totalAttempts", JNumber),
                        JField("timeoutMs", JNumber),
                        JField("headers", HeadersObject(request.headers))>>)),
      LogEntry("trace", "provider_http_request",
               JObject(EntryContext(profile, request.endpoint)
                   \o <<JField("totalAttempts", JNumber),
                        JField("timeoutMs", JNumber),
                        JField("method", JString(<<"POST">>)),
                        JField("headers", HeadersObject(request.headers)),
                        JField("body", request.body)>>))>>

\* what the exchange ends with: a response with its status, the deadline or a
\* connection failure
Exchange(kind, status) == [kind |-> kind, status |-> status]

ExchangeChoices ==
    {Exchange("response", 200), Exchange("response", 404), Exchange("response", 503),
     Exchange("timeout", NoStatus), Exchange("network", NoStatus)}

ResponseEntries(profile, request, exchange) ==
    CASE exchange.kind = "response" ->
            <<LogEntry("trace", "provider_http_response",
                       JObject(TraceContext(profile, request.endpoint)
                           \o <<JField("status", JNumber),
                                JField("ok", JBool(ResponseOk(exchange.status))),
                                JField("headers",
                                       HeadersObject(<<Header("content-type",
                                                              <<"application/json">>)>>)),
                                JField("bodyText", JString(<<"body">>))>>))>>
      [] exchange.kind = "timeout" ->
            <<LogEntry("trace", "provider_http_timeout",
                       JObject(TraceContext(profile, request.endpoint)
                           \o <<JField("timeoutMs", JNumber)>>))>>
      [] exchange.kind = "network" ->
            <<LogEntry("trace", "provider_http_network_error",
                       JObject(TraceContext(profile, request.endpoint)
                           \o <<JField("error", JString(<<"fetch failed">>))>>))>>

\* the error postJson throws when the exchange does not end with a success
ExchangeError(exchange) ==
    CASE exchange.kind = "timeout" -> TimeoutRequestError
      [] exchange.kind = "network" -> NetworkRequestError
      [] OTHER                     -> HttpStatusError(exchange.status)

\* provider_failure for the caught error: status and responseBody are
\* undefined unless the error is an HttpStatusError
FailureEntry(profile, endpoint, error) ==
    LET normalized == normalizeError(error)
    IN  LogEntry("warn", "provider_failure",
                 JObject(EntryContext(profile, endpoint)
                     \o <<JField("totalAttempts", JNumber),
                          JField("status", IF normalized.status = NoStatus
                                           THEN JUndefined ELSE JNumber),
                          JField("retryable", JBool(normalized.retryable)),
                          JField("latencyMs", JNumber),
                          JField("error", JString(<<"message">>)),
                          JField("responseBody", IF error.cls = "HttpStatusError"
                                                 THEN JString(<<"body">>)
                                                 ELSE JUndefined)>>))

\* the entries after `await postJson`: provider_message_transform and
\* provider_success, or provider_failure, followed by provider_retry_scheduled
\* when the error is retryable and attempts remain
OutcomeEntries(profile, request, exchange, attemptNo, totalAttempts) ==
    IF exchange.kind = "response" /\ ResponseOk(exchange.status)
    THEN <<LogEntry("trace", "provider_message_transform",
                    JObject(EntryContext(profile, request.endpoint)
                        \o <<JField("parsedMessage", JString(<<"m">>)),
                             JField("transformedMessage", JString(<<"m">>))>>)),
           LogEntry("info", "provider_success",
                    JObject(<<JField("provider", JString(<<profile.kind>>)),
                              JField("profile", JString(profile.id)),
                              JField("endpoint", JString(request.endpoint)),
                              JField("status", JNumber),
                              JField("latencyMs", JNumber),
                              JField("attempt", JNumber)>>))>>
    ELSE <<FailureEntry(profile, request.endpoint, ExchangeError(exchange))>>
             \o (IF normalizeError(ExchangeError(exchange)).retryable
                        /\ attemptNo < totalAttempts
                 THEN <<LogEntry("debug", "provider_retry_scheduled",
                                 JObject(EntryContext(profile, request.endpoint)
                                     \o <<JField("waitMs", JNumber)>>))>>
                 ELSE <<>>)

LogProfiles ==
    {p \in RequestProfiles :
        /\ p.baseUrl = <<"u">>
        /\ p.apiKey \in {NoValue, <<"K">>, <<"k/1">>}
        /\ p.azureDeployment = <<"d">>
        /\ p.extraHeaders \in {<<>>, <<Header("X-Custom", <<"1">>)>>}}

LogRun(lines, stage) == [lines |-> lines, stage |-> stage]

InitLog ==
    /\ ChainIdle
    /\ parked = NoInvocation
    /\ running = 1
    /\ fnArg \in [profile : LogProfiles, logLevel : LogLevels,
                  redactSensitive : BOOLEAN, exchange : ExchangeChoices,
                  attempt : 1..(MaxRetriesCfg + 1), maxRetries : 0..MaxRetriesCfg]
    /\ fnArg.attempt <= TotalAttempts(fnArg)
    /\ fnOut = LogRun(<<>>, "start")
    /\ fnDone = FALSE

RequestOf(profile) == AdapterBuildRequest(getProviderAdapter(profile.kind), profile)

\* buildRequest, then provider_request and provider_http_request; when
\* buildRequest throws, provider_failure with the profile's base URL
LogRequest ==
    /\ fnOut.stage = "start"
    /\ LET request == RequestOf(fnArg.profile)
       IN  IF request.threw
           THEN /\ fnOut' = LogRun(LogAll(fnArg.logLevel, fnArg.redactSensitive,
                                          <<FailureEntry(fnArg.profile, fnArg.profile.baseUrl,
                                                         PlainError("apiKey"))>>),
                                   "done")
                /\ fnDone' = TRUE
           ELSE /\ fnOut' = LogRun(LogAll(fnArg.logLevel, fnArg.redactSensitive,
                                          RequestEntries(fnArg.profile, request)),
                                   "sent")
                /\ fnDone' = FALSE
    /\ UNCHANGED <<fnArg, chainVars, schedVars>>

\* postJson: the entry written when the exchange ends
LogResponse ==
    /\ fnOut.stage = "sent"
    /\ fnOut' = LogRun(fnOut.lines
                           \o LogAll(fnArg.logLevel, fnArg.redactSensitive,
                                     ResponseEntries(fnArg.profile, RequestOf(fnArg.profile),
                                                     fnArg.exchange)),
                       "received")
    /\ UNCHANGED <<fnArg, fnDone, chainVars, schedVars>>

\* the exchange ended with a response of the success range
ExchangeSucceeded(exchange) == exchange.kind = "response" /\ ResponseOk(exchange.status)

\* provider_message_transform and provider_success, after which the chain
\* returns its success to generateWithProviders; or provider_failure and
\* provider_retry_scheduled
LogOutcome ==
    /\ fnOut.stage = "received"
    /\ fnOut' = LogRun(fnOut.lines
                           \o LogAll(fnArg.logLevel, fnArg.redactSensitive,
                                     OutcomeEntries(fnArg.profile, RequestOf(fnArg.profile),
                                                    fnArg.exchange, fnArg.attempt,
                                                    TotalAttempts(fnArg))),
                       IF ExchangeSucceeded(fnArg.exchange) THEN "returned" ELSE "done")
    /\ fnDone' = ~ExchangeSucceeded(fnArg.exchange)
    /\ UNCHANGED <<fnArg, chainVars, schedVars>>

\* `[ai-success] provider=.. profile=.. endpoint=.. latencyMs=..`
AiSuccessLine(profile, endpoint) ==
    <<"[ai-success] provider=", profile.kind, " profile=">> \o profile.id
        \o <<" endpoint=">> \o endpoint \o <<" latencyMs=", "0">>

\* generateWithProviders after `await executeProviderChain` returned a success:
\* the line goes to the output channel directly, not through the logger (no
\* level filter, no redaction)
AppendAiSuccess ==
    /\ fnOut.stage = "returned"
    /\ fnOut' = LogRun(Append(fnOut.lines,
                              AiSuccessLine(fnArg.profile, RequestOf(fnArg.profile).endpoint)),
                       "done")
    /\ fnDone' = TRUE
    /\ UNCHANGED <<fnArg, chainVars, schedVars>>

NextLog == LogRequest \/ LogResponse \/ LogOutcome \/ AppendAiSuccess

SpecLog == InitLog /\ [][NextLog]_vars

(***************************************************************************)
(* Responses of the responses API with several output items, each with     *)
(* several content chunks.                                                 *)
(***************************************************************************)
ChunkChoices ==
    {JObject(<<JField("text", JString(<<"a">>))>>),
     JObject(<<JField("text", JString(<<"b">>))>>),
     JObject(<<JField("type", JString(<<"refusal">>)), JField("text", JString(<<>>))>>)}

OutputItemChoices ==
    {JObject(<<JField("content", JArray(chunks))>>) : chunks \in SeqsUpTo(ChunkChoices, MaxParts)}
        \cup {JObject(<<JField("type", JString(<<"reasoning">>))>>)}

OutputTextChoices == {JUndefined, JString(<<>>), JString(<<"top">>)}

OutputResponses ==
    {JObject(<<JField("output_text", top), JField("output", JArray(output))>>) :
        top \in OutputTextChoices, output \in SeqsUpTo(OutputItemChoices, MaxParts)}

InitOutput ==
    /\ ChainIdle
    /\ parked = NoInvocation
    /\ running = 1
    /\ fnArg \in [kind : {"openaiResponses"}, data : OutputResponses]
    /\ fnOut = <<>>
    /\ fnDone = FALSE

SpecOutput == InitOutput /\ [][NextParse]_vars

(***************************************************************************)
(* The defensive accessors over decoded JSON. The result of asStringRecord *)
(* is the sequence of the entries it keeps, in insertion order.            *)
(***************************************************************************)
asStringRecordKeepsBlank(value) ==
    LET source == asRecord(value)
    IN  IF source.t = "undefined" THEN <<>>
        ELSE SelectSeq(source.items,
                       LAMBDA entry : entry.value.t = "string" /\ Len(entry.value.s) > 0)

asStringRecord(value) ==
    LET source == asRecord(value)
    IN  IF source.t = "undefined" THEN <<>>
        ELSE SelectSeq(source.items,
                       LAMBDA entry : /\ entry.value.t = "string"
                                      /\ Len(Trim(entry.value.s)) > 0)

EntryKeys == {"A", "B", "C"}

EntryValues ==
    {JString(<<"v">>), JString(<<>>), JString(<<" ">>), JString(<<" ", "v">>),
     JNumber, JNull, JObject(<<>>), JArray(<<JString(<<"v">>)>>)}

\* objects of up to MaxEntries entries with distinct keys
ObjectChoices ==
    {JObject(fields) : fields \in
        {f \in SeqsUpTo([key : EntryKeys, value : EntryValues], MaxEntries) :
            \A i, j \in 1 .. Len(f) : i # j => f[i].key # f[j].key}}

JsonChoices ==
    ObjectChoices \cup
        {JUndefined, JNull, JNumber, JFalse, JString(<<>>), JString(<<"x">>),
         JArray(<<>>), JArray(<<JString(<<"x">>), JNumber>>)}

InitJson ==
    /\ ChainIdle
    /\ parked = NoInvocation
    /\ running = 1
    /\ fnArg \in JsonChoices
    /\ fnOut = <<>>
    /\ fnDone = FALSE

\* the four accessors are applied to the same value
CallAccessors ==
    /\ ~fnDone
    /\ fnOut' = [record |-> asRecord(fnArg),
                 array |-> asArray(fnArg),
                 string |-> asString(fnArg),
                 stringRecord |-> asStringRecord(fnArg)]
    /\ fnDone' = TRUE
    /\ UNCHANGED <<fnArg, chainVars, schedVars>>

NextJson == CallAccessors

SpecJson == InitJson /\ [][NextJson]_vars

(***************************************************************************)
(* One exchange from the arrival of the response body to the outcome of    *)
(* the attempt: tryParseJson and extractErrorMessage of postJson, then the *)
(* adapter's parseResponse and the classification of the error. A body is  *)
(* a text; the JSON texts are the texts JSON.stringify gives of a value,   *)
(* possibly surrounded by white space.                                     *)
(***************************************************************************)
\* the error payloads and the other JSON values a server may send
BodyValues ==
    {JObject(<<JField("message", JString(<<"m">>))>>),
     JObject(<<JField("error", JObject(<<JField("message", JString(<<"em">>))>>))>>),
     JObject(<<JField("error", JObject(<<JField("message", JString(<<" ">>)),
                                         JField("code", JString(<<"c">>))>>))>>),
     JObject(<<JField("error", JString(<<"e", "\n">>))>>),
     JObject(<<JField("message", JNumber), JField("error", JNull)>>),
     JObject(<<>>), JNull, JNumber, JString(<<"s">>), JArray(<<>>)}
        \cup {ResponseShape(kind, <<"ok">>) : kind \in ProviderKind}

JsonBodies ==
    {Stringify(value) : value \in BodyValues}
        \cup {<<" ">> \o Stringify(value) \o <<"\n">> : value \in BodyValues}

BlankBodies == {<<>>, <<" ">>, <<"\n", " ">>}

\* bodies that JSON.parse rejects: plain text, markup, a truncated object
BrokenBodies ==
    {<<"Bad Gateway">>, <<"<html>", "\n">>, <<" ", "oops", " ">>,
     <<"{", "\"", "message", "\"", ":">>, <<"{", "}", "x">>}

BodyChoices == JsonBodies \cup BlankBodies \cup BrokenBodies

\* JSON.parse(value) succeeds
IsJsonText(text) == \E value \in BodyValues : Stringify(value) = Trim(text)

JSONparse(text) == CHOOSE value \in BodyValues : Stringify(value) = Trim(text)

tryParseJsonDropsRaw(value) ==
    IF Len(value) = 0 \/ Len(Trim(value)) = 0 THEN JObject(<<>>)
    ELSE IF IsJsonText(value) THEN JSONparse(value)
    ELSE JObject(<<>>)

tryParseJson(value) ==
    IF Len(value) = 0 \/ Len(Trim(value)) = 0 THEN JObject(<<>>)
    ELSE IF IsJsonText(value) THEN JSONparse(value)
    ELSE JObject(<<JField("raw", JString(value))>>)

\* typeof x === "string" && x.trim().length > 0
IsTextValue(x) == x.t = "string" /\ Len(Trim(x.s)) > 0

\* record.key of a value whose typeof is "object"
Member(value, key) == IF value.t = "object" THEN Field(value, key) ELSE JUndefined

extractErrorMessage(value) ==
    IF value.t \notin {"object", "array"} THEN <<>>
    ELSE LET errorNode == Member(value, "error")
         IN  IF IsTextValue(Member(value, "message")) THEN Member(value, "message").s
             ELSE IF /\ errorNode.t \in {"object", "array"}
                     /\ IsTextValue(Member(errorNode, "message"))
             THEN Member(errorNode, "message").s
             ELSE IF /\ errorNode.t \in {"object", "array"}
                     /\ IsTextValue(Member(errorNode, "code"))
             THEN Member(errorNode, "code").s
             ELSE IF IsTextValue(errorNode) THEN errorNode.s
             ELSE <<>>

\* new HttpStatusError(status, body, message)
HttpStatusErrorOf(status, body, message) ==
    [cls |-> "HttpStatusError", status |-> status, msg |-> message]

\* new Error(<the message saying the AI answer is empty or malformed>)
EmptyMessageError == PlainError(<<"empty or malformed AI answer">>)

\* extractErrorMessage(parsedData) || responseText || `HTTP ${response.status}`
StatusMessage(parsedData, responseText, status) ==
    IF Len(extractErrorMessage(parsedData)) > 0 THEN extractErrorMessage(parsedData)
    ELSE IF Len(responseText) > 0 THEN responseText
    ELSE <<"HTTP", " ", ToString(status)>>

AttemptFailed(data, error) ==
    LET normalized == normalizeError(error)
    IN  [ok |-> FALSE, data |-> data, message |-> normalized.message,
         status |-> normalized.status, retryable |-> normalized.retryable]

\* the attempt of profile kind once the body of a response has been read
AttemptOutcome(kind, status, responseText, t) ==
    LET parsedData == tryParseJson(responseText)
    IN  IF ~ResponseOk(status)
        THEN AttemptFailed(parsedData,
                 HttpStatusErrorOf(status, responseText,
                                   Trim(StatusMessage(parsedData, responseText, status))))
        ELSE LET parsedMessage == Trim(AdapterParseResponse(kind, parsedData))
                 transformedMessage == TransformedMessage(t, parsedMessage)
             IN  IF Len(transformedMessage) = 0
                 THEN AttemptFailed(parsedData, EmptyMessageError)
                 ELSE [ok |-> TRUE, data |-> parsedData, message |-> transformedMessage,
                       status |-> status, retryable |-> FALSE]

InitBody ==
    /\ ChainIdle
    /\ parked = NoInvocation
    /\ running = 1
    /\ fnArg \in [kind : ProviderKind, status : HttpStatuses,
                  body : BodyChoices, transform : TransformChoices]
    /\ fnOut = <<>>
    /\ fnDone = FALSE

\* response.text() resolves with the body
BodyArrives ==
    /\ ~fnDone
    /\ fnOut' = AttemptOutcome(fnArg.kind, fnArg.status, fnArg.body, fnArg.transform)
    /\ fnDone' = TRUE
    /\ UNCHANGED <<fnArg, chainVars, schedVars>>

NextBody == BodyArrives

SpecBody == InitBody /\ [][NextBody]_vars

(***************************************************************************)
(* Settings with providerProfiles and legacy keys side by side, and the    *)
(* warnings parseProviderProfiles pushes for repeated ids.                 *)
(***************************************************************************)
\* the warnings of l.170-172: index (from 0) and id of each ignored entry
RECURSIVE DuplicateWarningsFrom(_, _, _, _)
DuplicateWarningsFrom(nodes, env, ids, index) ==
    IF nodes = <<>> THEN <<>>
    ELSE LET profile == parseSingleProfile(Head(nodes), env)
         IN  IF Len(profile) = 0
             THEN DuplicateWarningsFrom(Tail(nodes), env, ids, index + 1)
             ELSE IF profile[1].id \in ids
             THEN <<[index |-> index, id |-> profile[1].id]>>
                      \o DuplicateWarningsFrom(Tail(nodes), env, ids, index + 1)
             ELSE DuplicateWarningsFrom(Tail(nodes), env, ids \cup {profile[1].id}, index + 1)

DuplicateWarnings(raw, env) ==
    IF ~raw.profilesIsArray THEN <<>>
    ELSE DuplicateWarningsFrom(raw.providerProfiles, env, {}, 0)

\* entries with id a (once written with a leading blank), an entry with id b,
\* an azureOpenai entry that is valid only with AZURE_OPENAI_BASE_URL, and an
\* entry that is not an object
RepeatedNodeChoices ==
    {RawNode(TRUE, <<"a">>, <<"ollama">>, NoValue, NoValue, "true"),
     RawNode(TRUE, <<"a">>, <<"azureOpenai">>, <<"m">>, <<"u">>, "false"),
     RawNode(TRUE, <<"a">>, <<"azureOpenai">>, NoValue, NoValue, "true"),
     RawNode(TRUE, <<" ", "a">>, <<"gemini">>, NoValue, NoValue, "absent"),
     RawNode(TRUE, <<"b">>, <<"ollama">>, NoValue, NoValue, "true"),
     RawNode(FALSE, NoValue, NoValue, NoValue, NoValue, "absent")}

NoLegacyKeys ==
    [apiKey |-> NoValue, openaiApiKey |-> NoValue, apiBaseUrl |-> NoValue,
     apiProtocol |-> NoValue, openaiModel |-> NoValue]

\* no legacy key, each legacy key alone (set, blank, not a string), all keys
LegacyKeyChoices ==
    {NoLegacyKeys}
        \cup {[NoLegacyKeys EXCEPT !.apiKey = v] : v \in {<<"k">>, <<" ">>, NotAString}}
        \cup {[NoLegacyKeys EXCEPT !.openaiApiKey = <<"k2">>],
              [NoLegacyKeys EXCEPT !.apiBaseUrl = <<"u">>],
              [NoLegacyKeys EXCEPT !.openaiModel = <<"m">>]}
        \cup {[NoLegacyKeys EXCEPT !.apiProtocol = v] :
                 v \in {<<"responses">>, <<"anthropicMessages">>, <<"chatCompletions">>,
                        <<"bogus">>, <<" ", "responses">>}}
        \cup {[apiKey |-> <<"k">>, openaiApiKey |-> <<"k2">>, apiBaseUrl |-> <<"u">>,
               apiProtocol |-> <<"anthropicMessages">>, openaiModel |-> <<"m">>]}

RawSettings(isArray, nodes, legacy) ==
    [profilesIsArray |-> isArray, providerProfiles |-> nodes,
     activeProfile |-> NoValue, fallbackProfiles |-> <<>>,
     apiKey |-> legacy.apiKey, openaiApiKey |-> legacy.openaiApiKey,
     apiBaseUrl |-> legacy.apiBaseUrl, apiProtocol |-> legacy.apiProtocol,
     openaiModel |-> legacy.openaiModel]

MixedSettings ==
    {RawSettings(TRUE, nodes, legacy) :
        nodes \in SeqsUpTo(RepeatedNodeChoices, MaxRawProfiles), legacy \in LegacyKeyChoices}
        \cup {RawSettings(FALSE, <<>>, legacy) : legacy \in LegacyKeyChoices}

InitSettings ==
    /\ ChainIdle
    /\ parked = NoInvocation
    /\ running = 1
    /\ fnArg \in [raw : MixedSettings, env : EnvChoices]
    /\ fnOut = FALSE
    /\ fnDone = FALSE

\* loadResolvedSettings: resolveExtensionSettings(raw, env) with its warnings
\* about repeated ids
LoadResolvedSettings ==
    /\ ~fnDone
    /\ fnOut' = [settings |-> resolveExtensionSettings(fnArg.raw, fnArg.env),
                 duplicates |-> DuplicateWarnings(fnArg.raw, fnArg.env)]
    /\ fnDone' = TRUE
    /\ UNCHANGED <<fnArg, chainVars, schedVars>>

NextSettings == LoadResolvedSettings

SpecSettings == InitSettings /\ [][NextSettings]_vars

(***************************************************************************)
(* The limits of a profile: clampInt and the resolution of timeoutMs and   *)
(* maxRetries. A raw value is a record with its type t; a number carries   *)
(* its class (finite, nan, inf) and, when finite, its value in tenths; a   *)
(* string carries its text.                                                *)
(***************************************************************************)
DEFAULT_REQUEST_TIMEOUT_MS == 20000
MAX_REQUEST_TIMEOUT_MS == 3600000
DEFAULT_MAX_RETRIES == 2

RawOf(t, class, tenths, text) == [t |-> t, class |-> class, tenths |-> tenths, text |-> text]
RawUndefined == RawOf("undefined", "none", 0, <<>>)
RawNull == RawOf("null", "none", 0, <<>>)
RawTrue == RawOf("boolean", "true", 0, <<>>)
RawFalse == RawOf("boolean", "false", 0, <<>>)
RawObject == RawOf("object", "none", 0, <<>>)
RawEmptyArray == RawOf("array", "none", 0, <<>>)
RawNaN == RawOf("number", "nan", 0, <<>>)
RawInfinity == RawOf("number", "inf", 0, <<>>)
RawNumber(tenths) == RawOf("number", "finite", tenths, <<>>)
RawString(text) == RawOf("string", "none", 0, text)

\* a JavaScript number: its class and, when finite, its value in tenths
NumberOf(class, tenths) == [class |-> class, tenths |-> tenths]

\* the numerals that occur in the settings, with their values in tenths
Numerals == {"3000000", "4000000", "500", "2.9", "7", "-1", "3"}

NumeralTenths(token) ==
    CASE token = "3000000" -> 30000000
      [] token = "4000000" -> 40000000
      [] token = "500"     -> 5000
      [] token = "2.9"     -> 29
      [] token = "7"       -> 70
      [] token = "-1"      -> -10
      [] token = "3"       -> 30

\* Number(value) for a value that is not a number
ToNumber(value) ==
    CASE value.t = "undefined" -> NumberOf("nan", 0)
      [] value.t = "null"      -> NumberOf("finite", 0)
      [] value.t = "boolean"   -> NumberOf("finite", IF value.class = "true" THEN 10 ELSE 0)
      [] value.t = "object"    -> NumberOf("nan", 0)
      [] value.t = "array"     -> NumberOf("finite", 0)
      [] value.t = "string"    ->
            LET text == Trim(value.text)
            IN  IF Len(text) = 0 THEN NumberOf("finite", 0)
                ELSE IF Len(text) = 1 /\ text[1] \in Numerals
                THEN NumberOf("finite", NumeralTenths(text[1]))
                ELSE NumberOf("nan", 0)

\* Math.trunc of a value in tenths
Trunc(tenths) == IF tenths >= 0 THEN tenths \div 10 ELSE -((-tenths) \div 10)

clampIntNoClamp(value, defaultValue, min, max) ==
    LET number == IF value.t = "number" THEN NumberOf(value.class, value.tenths)
                  ELSE ToNumber(value)
    IN  IF number.class # "finite" THEN defaultValue ELSE Trunc(number.tenths)

clampInt(value, defaultValue, min, max) ==
    LET number == IF value.t = "number" THEN NumberOf(value.class, value.tenths)
                  ELSE ToNumber(value)
        integer == Trunc(number.tenths)
    IN  IF number.class # "finite" THEN defaultValue
        ELSE IF integer < min THEN min
        ELSE IF integer > max THEN max
        ELSE integer

\* timeoutMs and maxRetries as resolveExtensionSettings computes them: the
\* global settings, those of a profile parsed from node, and those of the
\* legacy profile
ResolveLimits(raw, env, node) ==
    LET requestTimeoutDefault ==
            clampInt(env.API_TIMEOUT_MS, DEFAULT_REQUEST_TIMEOUT_MS, 1000, MAX_REQUEST_TIMEOUT_MS)
        requestTimeoutMs ==
            clampInt(raw.requestTimeoutMs, requestTimeoutDefault, 1000, MAX_REQUEST_TIMEOUT_MS)
        maxRetries == clampInt(raw.maxRetries, DEFAULT_MAX_RETRIES, 0, 5)
    IN  [requestTimeoutDefault |-> requestTimeoutDefault,
         requestTimeoutMs |-> requestTimeoutMs,
         maxRetries |-> maxRetries,
         parsed |-> [timeoutMs |-> clampInt(node.timeoutMs, requestTimeoutMs,
                                            1000, MAX_REQUEST_TIMEOUT_MS),
                     maxRetries |-> clampInt(node.maxRetries, maxRetries, 0, 5)],
         legacy |-> [timeoutMs |-> requestTimeoutMs, maxRetries |-> maxRetries]]

\* process.env holds strings only
EnvTimeoutChoices ==
    {RawUndefined, RawString(<<"3000000">>), RawString(<<"4000000">>), RawString(<<"500">>),
     RawString(<<"abc">>), RawString(<<>>)}

TimeoutChoices ==
    {RawUndefined, RawNull, RawNumber(50000), RawNumber(9999), RawNumber(36000010),
     RawNaN, RawString(<<" ", "3000000">>), RawString(<<"abc">>), RawFalse}

RetryValueChoices ==
    {RawUndefined, RawNull, RawNumber(30), RawNumber(29), RawNumber(-5), RawNumber(60),
     RawInfinity, RawString(<<"7">>), RawString(<<" ">>), RawTrue, RawObject, RawEmptyArray}

InitLimits ==
    /\ ChainIdle
    /\ parked = NoInvocation
    /\ running = 1
    /\ fnArg \in [env : [API_TIMEOUT_MS : EnvTimeoutChoices],
                  raw : [requestTimeoutMs : TimeoutChoices, maxRetries : RetryValueChoices],
                  node : [timeoutMs : TimeoutChoices, maxRetries : RetryValueChoices]]
    /\ fnOut = FALSE
    /\ fnDone = FALSE

\* resolveExtensionSettings computes the limits of its profiles
CallResolveLimits ==
    /\ ~fnDone
    /\ fnOut' = ResolveLimits(fnArg.raw, fnArg.env, fnArg.node)
    /\ fnDone' = TRUE
    /\ UNCHANGED <<fnArg, chainVars, schedVars>>

NextLimits == CallResolveLimits

SpecLimits == InitLimits /\ [][NextLimits]_vars

(***************************************************************************)
(* The commitGenerator.generate command. Each invocation of the handler    *)
(* runs from one await to the next without interleaving (the awaits are    *)
(* getGitApi and buildCommitMessage in the task, and withProgress, which   *)
(* the handler awaits before its finally block); fnArg is the text         *)
(* of the commit input box before the first invocation and fnOut the state *)
(* of the extension: the isGenerating flag of activate, the position and   *)
(* outcome of every invocation, the input box, and the invocations that    *)
(* called buildCommitMessage and wrote the input box, in order.            *)
(***************************************************************************)
Invocations == 1 .. MaxInvocations

isGenerating == fnOut.isGenerating

\* the results buildCommitMessage resolves with for invocation i
BuildResults(i) ==
    {BuildResult(<<>>, "fallback", <<"no_changes">>),
     BuildResult(<<"feat", ToString(i)>>, "ai", <<>>),
     BuildResult(<<"chore", ToString(i)>>, "fallback", <<"all_providers_failed">>)}

InitGenerate ==
    /\ ChainIdle
    /\ parked = NoInvocation
    /\ running = 1
    /\ fnArg \in {<<>>, <<"draft">>}
    /\ fnOut = [isGenerating |-> FALSE,
                at |-> [i \in Invocations |-> "pending"],
                outcome |-> [i \in Invocations |-> "none"],
                inputBox |-> fnArg,
                built |-> <<>>,
                wrote |-> <<>>]
    /\ fnDone = FALSE

\* the task passed to withProgress has returned after reporting its outcome;
\* the handler still waits at `await vscode.window.withProgress(...)`
TaskReturns(state, i, outcome) ==
    [state EXCEPT !.at[i] = "withProgress", !.outcome[i] = outcome]

\* the task rejected: the handler reports the error in its catch block and
\* leaves through the finally block
Exit(state, i, outcome) ==
    [state EXCEPT !.isGenerating = FALSE, !.at[i] = "returned", !.outcome[i] = outcome]

\* the command is invoked: up to the first await
Generate(i) ==
    /\ fnOut.at[i] = "pending"
    /\ fnOut' = IF isGenerating
                THEN [fnOut EXCEPT !.at[i] = "returned", !.outcome[i] = "busy"]
                ELSE [fnOut EXCEPT !.isGenerating = TRUE, !.at[i] = "getGitApi"]
    /\ UNCHANGED <<fnArg, fnDone, chainVars, schedVars>>

\* an early return that skips the reset of the flag
GitApiSettlesNoFinally(i) ==
    /\ fnOut.at[i] = "getGitApi"
    /\ \E git \in {"none", "repository", "throws"} :
         fnOut' = IF git = "none"
                  THEN [fnOut EXCEPT !.at[i] = "returned", !.outcome[i] = "noRepository"]
                  ELSE IF git = "throws" THEN Exit(fnOut, i, "error")
                  ELSE [fnOut EXCEPT !.at[i] = "buildCommitMessage",
                                     !.built = Append(@, i)]
    /\ UNCHANGED <<fnArg, fnDone, chainVars, schedVars>>

\* getGitApi() settles: without a repository the task reports it and returns,
\* with one it calls buildCommitMessage
GitApiSettles(i) ==
    /\ fnOut.at[i] = "getGitApi"
    /\ \E git \in {"none", "repository", "throws"} :
         fnOut' = IF git = "none" THEN TaskReturns(fnOut, i, "noRepository")
                  ELSE IF git = "throws" THEN Exit(fnOut, i, "error")
                  ELSE [fnOut EXCEPT !.at[i] = "buildCommitMessage",
                                     !.built = Append(@, i)]
    /\ UNCHANGED <<fnArg, fnDone, chainVars, schedVars>>

\* buildCommitMessage settles: an empty message is reported, any other is
\* written to the input box, and the task returns; a rejection is caught
BuildSettles(i) ==
    /\ fnOut.at[i] = "buildCommitMessage"
    /\ \/ \E result \in BuildResults(i) :
            fnOut' = IF Len(result.message) = 0 THEN TaskReturns(fnOut, i, "noChanges")
                     ELSE [TaskReturns(fnOut, i, "written")
                              EXCEPT !.inputBox = result.message,
                                     !.wrote = Append(@, i)]
       \/ fnOut' = Exit(fnOut, i, "error")
    /\ UNCHANGED <<fnArg, fnDone, chainVars, schedVars>>

\* withProgress resolves after the task returned: the handler resumes and
\* resets the flag in its finally block
WithProgressSettles(i) ==
    /\ fnOut.at[i] = "withProgress"
    /\ fnOut' = [fnOut EXCEPT !.isGenerating = FALSE, !.at[i] = "returned"]
    /\ UNCHANGED <<fnArg, fnDone, chainVars, schedVars>>

NextGenerate ==
    \E i \in Invocations :
        Generate(i) \/ GitApiSettles(i) \/ BuildSettles(i) \/ WithProgressSettles(i)

SpecGenerate == InitGenerate /\ [][NextGenerate]_vars

(***************************************************************************)
(* Properties of the provider chain.                                       *)
(***************************************************************************)
HasSuccess == returned.returned /\ returned.success.profileId # 0

\* max(0, maxRetries) + 1
AttemptBudget(profile) == IF profile.maxRetries > 0 THEN profile.maxRetries + 1 ELSE 1

CallsTo(i) == Cardinality({k \in 1 .. Len(httpCalls) : httpCalls[k][1] = i})

FailuresOf(i) == {k \in 1 .. Len(failures) : failures[k].profileId = i}

\* record k of the list describes the k-th attempt made, which failed
RecordsMatchAttempts(list) ==
    \A k \in 1 .. Len(list) :
        /\ k <= Len(attempts)
        /\ list[k].profileId = attempts[k].pos
        /\ list[k].attempt = attempts[k].attempt
        /\ attempts[k].outcome = "failed"

\* C1: as soon as an attempt succeeds the run is over: that attempt is the last
\* one made and the last request issued, nothing is in flight and no step is
\* left, and the result names the winning profile with exactly the failure
\* records of the attempts made before it.
C1_SuccessShortCircuits ==
    /\ \A i \in 1 .. Len(attempts) :
          attempts[i].outcome = "ok" => i = Len(attempts) /\ HasSuccess
    /\ HasSuccess =>
          LET w == attempts[Len(attempts)]
          IN  /\ pc = "done"
              /\ ~ENABLED Next
              /\ inFlight = {}
              /\ w.outcome = "ok"
              /\ returned.success.profileId = w.pos
              /\ httpCalls[Len(httpCalls)] = <<w.pos, w.attempt>>
              /\ Len(returned.failures) = Len(attempts) - 1
              /\ RecordsMatchAttempts(returned.failures)

C1_Witness ==
    /\ HasSuccess
    /\ returned.success.profileId = 2
    /\ Len(returned.failures) = 2
    /\ returned.failures[1].attempt = 1
    /\ returned.failures[2].attempt = 2

\* C2: the result has no success exactly when no attempt succeeded, and then
\* the profile list is exhausted and failures holds one record per attempt made,
\* in order (none for an empty profile list).
C2_FailuresComplete ==
    returned.returned =>
        /\ ~HasSuccess <=> (\A i \in 1 .. Len(attempts) : attempts[i].outcome # "ok")
        /\ ~HasSuccess =>
              /\ pIdx = Len(profiles) + 1
              /\ Len(returned.failures) = Len(attempts)
              /\ RecordsMatchAttempts(returned.failures)
              /\ \A i \in 1 .. Len(profiles) : FailuresOf(i) # {}
              /\ profiles = <<>> => returned.failures = <<>>

C2_Witness ==
    /\ returned.returned
    /\ ~HasSuccess
    /\ Len(profiles) = 2
    /\ Len(returned.failures) = 3

\* C3: after failed attempt a of a profile the executor sleeps once and makes
\* attempt a+1 of the same profile exactly when the failure is retryable and
\* a < max(0, maxRetries) + 1; otherwise it does not sleep and goes on with
\* attempt 1 of the next profile, or ends the chain.
C3_RetryOrAdvance ==
    \A i \in 1 .. Len(failures) :
        LET f == failures[i]
            p == f.profileId
            retry == f.retryable /\ f.attempt < AttemptBudget(profiles[p])
            slept == {k \in 1 .. Len(sleeps) : sleeps[k].after = <<p, f.attempt>>}
        IN  /\ Cardinality(slept) = IF retry THEN 1 ELSE 0
            /\ IF i < Len(attempts)
               THEN /\ attempts[i + 1].pos = IF retry THEN p ELSE p + 1
                    /\ attempts[i + 1].attempt = IF retry THEN f.attempt + 1 ELSE 1
               ELSE IF retry
               THEN /\ pIdx = p
                    /\ \/ pc = "sleep" /\ attempt = f.attempt
                       \/ pc = "buildRequest" /\ attempt = f.attempt + 1
               ELSE /\ pIdx = p + 1
                    /\ attempt = 1
                    /\ \/ pc = "buildRequest" /\ p < Len(profiles)
                       \/ pc = "buildRequest" /\ p = Len(profiles) /\ ENABLED ReturnFailures
                       \/ pc = "done" /\ p = Len(profiles)

C3_Witness ==
    /\ Len(failures) = 3
    /\ failures[1].retryable
    /\ attempts[2] = [pos |-> 1, attempt |-> 2, outcome |-> "failed"]
    /\ Len(sleeps) = 1
    /\ profiles[2].maxRetries = 1
    /\ failures[3].profileId = 2
    /\ failures[3].attempt = 1
    /\ failures[3].status = 404
    /\ pIdx = 3

\* C4: a profile all of whose attempts fail retryably gets exactly
\* max(0, maxRetries) + 1 requests and as many failure records, all retryable;
\* a profile that succeeds on its first attempt gets exactly one request and is
\* success.profileId.
C4_RetryBudget ==
    /\ \A i \in 1 .. Len(profiles) :
          (i < pIdx /\ \A k \in FailuresOf(i) : failures[k].retryable) =>
              /\ CallsTo(i) = AttemptBudget(profiles[i])
              /\ Cardinality(FailuresOf(i)) = AttemptBudget(profiles[i])
    /\ \A j \in 1 .. Len(attempts) :
          (attempts[j].outcome = "ok" /\ attempts[j].attempt = 1) =>
              /\ CallsTo(attempts[j].pos) = 1
              /\ HasSuccess
              /\ returned.success.profileId = attempts[j].pos

C4_Witness ==
    /\ Len(profiles) = 2
    /\ profiles[1].maxRetries = 1
    /\ profiles[2].maxRetries = 0
    /\ HasSuccess
    /\ returned.success.profileId = 2
    /\ CallsTo(1) = 2
    /\ CallsTo(2) = 1
    /\ Len(returned.failures) = 2
    /\ returned.failures[1].retryable
    /\ returned.failures[1].status = 503

KeyKinds == {"openaiCompat", "openaiResponses", "anthropic", "azureOpenai", "gemini"}

MissingCredential(profile) ==
    \/ profile.kind \in KeyKinds /\ profile.apiKey = NoValue
    \/ profile.kind = "azureOpenai" /\ profile.azureDeployment = NoValue

\* C5: a profile of a key-requiring kind without apiKey, or an azureOpenai
\* profile without azureDeployment, never gets an HTTP request; once the run
\* has passed it, it has exactly one failure record (attempt 1, not retryable,
\* no status), whatever its maxRetries, and the next attempt made is attempt 1
\* of the next profile. No ollama profile fails before its request is sent.
C5_MissingCredential ==
    /\ \A i \in 1 .. Len(profiles) :
          MissingCredential(profiles[i]) =>
              /\ CallsTo(i) = 0
              /\ i < pIdx =>
                    /\ Cardinality(FailuresOf(i)) = 1
                    /\ \A k \in FailuresOf(i) :
                          /\ failures[k].attempt = 1
                          /\ ~failures[k].retryable
                          /\ failures[k].status = NoStatus
                          /\ k < Len(attempts) =>
                                /\ attempts[k + 1].pos = i + 1
                                /\ attempts[k + 1].attempt = 1
    /\ \A k \in 1 .. Len(failures) :
          failures[k].provider = "ollama" =>
              /\ failures[k].endpoint = "request"
              /\ <<failures[k].profileId, failures[k].attempt>> \in
                    {httpCalls[c] : c \in 1 .. Len(httpCalls)}

C5_Witness ==
    /\ Len(profiles) = 2
    /\ profiles[1].kind = "azureOpenai"
    /\ profiles[1].apiKey = <<"k">>
    /\ profiles[1].azureDeployment = NoValue
    /\ profiles[1].maxRetries > 0
    /\ Len(failures) = 1
    /\ httpCalls = <<<<2, 1>>>>

\* C6: a success-range response whose parsed and transformed message is empty
\* is recorded as one non-retryable failure of that attempt, and the run goes
\* on with the next profile even when attempts of the profile remain.
C6_EmptyMessageAbandonsProfile ==
    lastError = PlainError("empty") =>
        LET f == failures[Len(failures)]
            a == attempts[Len(attempts)]
        IN  /\ Len(failures) = Len(attempts)
            /\ f.profileId = a.pos
            /\ f.attempt = a.attempt
            /\ a.outcome = "failed"
            /\ ~f.retryable
            /\ f.status = NoStatus
            /\ pc \in {"buildRequest", "done"}
            /\ pIdx = f.profileId + 1
            /\ attempt = 1
            /\ Cardinality({k \in 1 .. Len(sleeps) :
                               sleeps[k].after = <<f.profileId, f.attempt>>}) = 0

C6_Witness ==
    /\ lastError = PlainError("empty")
    /\ Len(failures) = 1
    /\ profiles[1].maxRetries > 0
    /\ transform = "reject"
    /\ pc = "buildRequest"
    /\ pIdx = 2
    /\ Len(profiles) = 2

\* the error the catch block has caught in the latest attempt (while the
\* continuation of `await postJson` is pending, the error is not caught yet)
CaughtError == IF pc = "settled" THEN NoError ELSE lastError

\* C7: an attempt that ends with an HTTP status outside the success range is
\* recorded with that status and with retryable = (408, 429 or >= 500); a
\* record of any other failure carries no status.
C7_StatusFailureRecord ==
    /\ CaughtError.cls = "HttpStatusError" =>
          LET f == failures[Len(failures)]
          IN  /\ f.status = CaughtError.status
              /\ f.status # NoStatus
              /\ ~(f.status >= 200 /\ f.status <= 299)
              /\ f.retryable = (f.status = 408 \/ f.status = 429 \/ f.status >= 500)
    /\ CaughtError.cls \in {"TimeoutRequestError", "NetworkRequestError", "Error"} =>
          failures[Len(failures)].status = NoStatus
    /\ \A k \in 1 .. Len(failures) :
          failures[k].status # NoStatus =>
              /\ ~(failures[k].status >= 200 /\ failures[k].status <= 299)
              /\ failures[k].endpoint = "request"
              /\ failures[k].retryable =
                    (failures[k].status = 408 \/ failures[k].status = 429
                        \/ failures[k].status >= 500)

C7_Witness ==
    /\ Len(failures) = 2
    /\ failures[1].status = 503
    /\ failures[1].retryable
    /\ failures[2].status = 404
    /\ ~failures[2].retryable
    /\ pc = "buildRequest"
    /\ lastError = HttpStatusError(404)

\* C8: isRetryableStatus is true for 408, 429, 500, 502, 503 and false for 400,
\* 401, 403, 404; in general it is true exactly for 408, 429 and every status
\* of at least 500.
C8_RetryableStatus ==
    fnDone =>
        /\ fnArg \in {408, 429, 500, 502, 503} => fnOut
        /\ fnArg \in {400, 401, 403, 404} => ~fnOut
        /\ fnOut <=> (fnArg \in {408, 429} \/ fnArg > 499)

C8_Witness == fnDone /\ fnArg = 408 /\ fnOut

\* C9: every attempt that fails by a timeout or by a connection-level error of
\* the HTTP exchange (while fetching or while reading the body) is recorded as
\* retryable, without status, and is retried while attempts remain.
C9_ConnectionFailuresRetryable ==
    (\/ CaughtError.cls \in {"TimeoutRequestError", "NetworkRequestError"}
     \/ CaughtError = PlainError("terminated")) =>
        LET f == failures[Len(failures)]
        IN  /\ f.retryable
            /\ f.status = NoStatus
            /\ f.attempt < AttemptBudget(profiles[f.profileId]) =>
                  /\ pIdx = f.profileId
                  /\ \/ pc = "sleep" /\ attempt = f.attempt
                     \/ pc = "buildRequest" /\ attempt = f.attempt + 1

\* C10: timeoutMs is a deadline on the whole exchange: once it has elapsed
\* the request is no longer in flight (it was aborted, as a timeout failure).
C10_DeadlineAbortsRequest ==
    deadlinePassed => <<pIdx, attempt>> \notin inFlight

\* C11: executeProviderChain never throws or rejects: whatever goes wrong in an
\* attempt (a throwing transformMessage and a throwing logger included) ends in
\* a failure record followed by a retry or an advance, and the run ends by
\* returning a result.
C11_NeverRejects ==
    /\ pc # "rejected"
    /\ (pc = "done") = returned.returned

\* C12: in every state of a run at most one HTTP request is in flight, and it is
\* the request of the attempt in progress: none is open while the run sleeps,
\* starts an attempt or has returned (a timed-out request was aborted). The
\* requests are issued in profile order and, within a profile, attempt 1 first
\* and then each next attempt.
C12_OneRequestInOrder ==
    /\ Cardinality(inFlight) <= 1
    /\ inFlight \subseteq {<<pIdx, attempt>>}
    /\ inFlight # {} => pc \in {"fetch", "text"} /\ httpCalls[Len(httpCalls)] = <<pIdx, attempt>>
    /\ \A k \in 1 .. Len(httpCalls) :
          LET c == httpCalls[k]
          IN  IF k = 1 \/ httpCalls[Max(1, k - 1)][1] # c[1]
              THEN /\ c[2] = 1
                   /\ k > 1 => httpCalls[k - 1][1] < c[1]
              ELSE c[2] = httpCalls[k - 1][2] + 1

C12_Witness ==
    /\ httpCalls = <<<<1, 1>>, <<1, 2>>, <<2, 1>>>>
    /\ inFlight = {<<2, 1>>}
    /\ Len(failures) = 2
    /\ failures[1].status = NoStatus
    /\ failures[1].retryable
    /\ pc = "fetch"

\* the records of the list are grouped by profile in input order, and within a
\* profile the attempt numbers are 1, 2, 3, ...
Chronological(list) ==
    \A k \in 1 .. Len(list) :
        IF k = 1 \/ list[Max(1, k - 1)].profileId # list[k].profileId
        THEN /\ list[k].attempt = 1
             /\ k > 1 => list[k - 1].profileId < list[k].profileId
        ELSE list[k].attempt = list[k - 1].attempt + 1

\* C13: the failures list, while it is built and when it is returned (with or
\* without success), is in chronological order of the attempts: grouped by
\* profile in the order of input.profiles, with attempt numbers increasing
\* from 1 within a profile.
C13_FailuresChronological ==
    /\ Chronological(failures)
    /\ \A k \in 1 .. Len(failures) : failures[k].profileId \in 1 .. Len(profiles)
    /\ returned.returned => returned.failures = failures /\ Chronological(returned.failures)

C13_Witness ==
    /\ returned.returned
    /\ Len(returned.failures) = 3
    /\ returned.failures[1].profileId = 1 /\ returned.failures[1].attempt = 1
    /\ returned.failures[2].profileId = 1 /\ returned.failures[2].attempt = 2
    /\ returned.failures[3].profileId = 2 /\ returned.failures[3].attempt = 1

\* C14: the backoff delay after failed attempt a is min(2000, 300 * 2^(a-1)):
\* 300, 600, 1200, then 2000 for every a >= 4; it never exceeds 2000 and never
\* decreases as a grows.
C14_BackoffDelay ==
    fnDone =>
        LET a == fnArg[1]
            b == fnArg[2]
            doubled == 300 * 2 ^ (a - 1)
        IN  /\ a = 1 => fnOut[1] = 300
            /\ a = 2 => fnOut[1] = 600
            /\ a = 3 => fnOut[1] = 1200
            /\ a >= 4 => fnOut[1] = 2000
            /\ fnOut[1] = IF doubled < 2000 THEN doubled ELSE 2000
            /\ fnOut[1] <= 2000
            /\ fnOut[1] <= fnOut[2]

C14_Witness == fnDone /\ fnArg = <<3, 5>> /\ fnOut = <<1200, 2000>>

\* the state st of an invocation is what its own input and its own attempts
\* make it: one failure record per failed attempt of its own, about a profile
\* of its own input, and the loop position that its own latest attempt leads to
OwnProgress(st) ==
    LET failed == {k \in 1 .. Len(st.attempts) : st.attempts[k].outcome = "failed"}
    IN  /\ Len(st.failures) = Cardinality(failed)
        /\ \A k \in 1 .. Len(st.failures) :
              /\ k \in failed
              /\ st.failures[k].profileId = st.attempts[k].pos
              /\ st.failures[k].attempt = st.attempts[k].attempt
              /\ st.failures[k].profileId \in 1 .. Len(st.profiles)
              /\ st.failures[k].provider = st.profiles[st.failures[k].profileId].kind
        /\ st.returned.returned => st.returned.failures = st.failures
        /\ st.attempts = <<>> => st.pIdx = 1 /\ st.attempt = 1
        /\ st.attempts # <<>> =>
              LET a == st.attempts[Len(st.attempts)]
                  retry == /\ st.failures[Len(st.failures)].retryable
                           /\ a.attempt < AttemptBudget(st.profiles[a.pos])
              IN  CASE a.outcome = "pending" -> st.pIdx = a.pos /\ st.attempt = a.attempt
                    [] a.outcome = "ok" -> st.pc = "done" /\ st.returned.success.profileId = a.pos
                    [] a.outcome = "failed" ->
                          IF retry
                          THEN st.pIdx = a.pos /\ st.attempt \in {a.attempt, a.attempt + 1}
                          ELSE st.pIdx = a.pos + 1 /\ st.attempt = 1

\* C15: when two invocations interleave at their awaits, each one's failures
\* list (and the list it returns) holds exactly the records of its own failed
\* attempts, and its retry and profile progress follows from its own input and
\* its own responses.
C15_InvocationsIndependent ==
    /\ OwnProgress(RunState)
    /\ parked.pc # "none" => OwnProgress(parked)

C15_Witness ==
    /\ running = 2
    /\ pc = "done"
    /\ returned.returned
    /\ Len(returned.failures) = 1
    /\ returned.failures[1].provider = "ollama"
    /\ parked.pc = "sleep"
    /\ Len(parked.failures) = 1
    /\ parked.failures[1].provider = "openaiCompat"

\* C16: whenever the run returns success, success.message is
\* trim(transformMessage(trim(parseResponse(data)))) for the response that won
\* (trim(parseResponse(data)) without a transformMessage), and it is not empty
\* and neither starts nor ends with whitespace.
C16_SuccessMessage ==
    HasSuccess =>
        LET kind == profiles[returned.success.profileId].kind
            parsed == Trim(ParseResponse(kind, winData))
            message == returned.success.message
        IN  /\ winData \in DataChoices(kind)
            /\ message = IF transform = "none"
                         THEN parsed
                         ELSE Trim(ApplyTransform(transform, parsed))
            /\ message # <<>>
            /\ ~IsSpace(message[1])
            /\ ~IsSpace(message[Len(message)])

C16_Witness ==
    /\ HasSuccess
    /\ transform = "pad"
    /\ winData.text = <<" ", "m", " ">>
    /\ returned.success.message = <<"m">>
    /\ Len(returned.failures) = 1

\* position of the first occurrence of event e in the trace t (0 when absent)
IndexOf(t, e) ==
    IF \E i \in 1 .. Len(t) : t[i] = e
    THEN CHOOSE i \in 1 .. Len(t) : t[i] = e /\ \A j \in 1 .. i - 1 : t[j] # e
    ELSE 0

\* C17: every attempt that has ended, by success or by any failure (a
\* precondition failure included), has called logger.log at least once; an
\* attempt that reached the network logged provider_request and
\* provider_http_request before the fetch call and, once ended, its
\* provider_failure or provider_success entry after it.
C17_AttemptsAreLogged ==
    attempts # <<>> =>
        LET a == attempts[Len(attempts)]
            sent == httpCalls # <<>> /\ httpCalls[Len(httpCalls)] = <<a.pos, a.attempt>>
            ended == a.outcome # "pending"
            fetchAt == IndexOf(trace, "fetch")
        IN  /\ ended => \E i \in 1 .. Len(trace) : trace[i] # "fetch"
            /\ a.outcome = "failed" => IndexOf(trace, "provider_failure") > 0
            /\ a.outcome = "ok" => trace[Len(trace)] = "provider_success"
            /\ sent <=> fetchAt > 0
            /\ sent =>
                  /\ IndexOf(trace, "provider_request") \in 1 .. fetchAt - 1
                  /\ IndexOf(trace, "provider_http_request") \in 1 .. fetchAt - 1
                  /\ \A i \in 1 .. Len(trace) :
                        trace[i] \in {"provider_failure", "provider_success"} => i > fetchAt
                  /\ Cardinality({i \in 1 .. Len(trace) : trace[i] = "fetch"}) = 1

C17_Witness ==
    /\ Len(attempts) = 2
    /\ BuildRequestThrows(profiles[1])
    /\ attempts[1].outcome = "failed"
    /\ attempts[2].outcome = "failed"
    /\ trace = <<"provider_request", "provider_http_request", "fetch",
                 "provider_http_timeout", "provider_failure">>

\* the ids of a list of profiles, in order
IdsOf(ps) == [i \in 1 .. Len(ps) |-> ps[i].id]

\* C18: buildExecutionOrder puts the profile whose id is active first (when it
\* exists), then the profiles named by fallbacks in the listed order (unknown
\* ids and repeats skipped), then the other profiles in their original order;
\* every id of the input appears exactly once, and when neither active nor a
\* fallback names a profile the result is the input.
C18_ExecutionOrder ==
    fnDone =>
        LET ps == fnArg.profiles
            ids == IdsOf(ps)
            out == IdsOf(fnOut)
            named == Range(fnArg.fallbacks) \cap Range(ids)
            group(id) == IF id = fnArg.active THEN 0 ELSE IF id \in named THEN 1 ELSE 2
        IN  /\ Len(fnOut) = Len(ps)
            /\ Range(fnOut) = Range(ps)
            /\ \A i, j \in 1 .. Len(out) : out[i] = out[j] => i = j
            /\ fnArg.active \in Range(ids) => out[1] = fnArg.active
            /\ \A i, j \in 1 .. Len(out) :
                  i < j =>
                      /\ group(out[i]) <= group(out[j])
                      /\ group(out[i]) = 1 /\ group(out[j]) = 1 =>
                            IndexOf(fnArg.fallbacks, out[i]) < IndexOf(fnArg.fallbacks, out[j])
                      /\ group(out[i]) = 2 /\ group(out[j]) = 2 =>
                            IndexOf(ids, out[i]) < IndexOf(ids, out[j])
            /\ (fnArg.active \notin Range(ids) /\ named = {}) => fnOut = ps

C18_Witness ==
    /\ fnDone
    /\ IdsOf(fnArg.profiles) = <<<<"a">>, <<"b">>, <<"c">>>>
    /\ fnArg.active = <<"c">>
    /\ fnArg.fallbacks = <<UnknownId, <<"b">>>>
    /\ IdsOf(fnOut) = <<<<"c">>, <<"b">>, <<"a">>>>

\* C19: the executionOrder of resolveExtensionSettings holds exactly the
\* enabled profiles of the resolved list, each once; no disabled profile is in
\* it, even one named by activeProfile or fallbackProfiles; and activeProfile
\* is the id of its first element.
C19_OrderIsEnabledProfiles ==
    fnDone =>
        LET order == fnOut.executionOrder
        IN  /\ Range(order) = {p \in Range(fnOut.profiles) : p.enabled}
            /\ \A i, j \in 1 .. Len(order) : order[i].id = order[j].id => i = j
            /\ \A i \in 1 .. Len(order) : order[i].enabled
            /\ order # <<>> => fnOut.activeProfile = order[1].id
            /\ order = <<>> => fnOut.activeProfile = <<>>
            /\ \A i \in 1 .. Len(fnArg.raw.providerProfiles) :
                  LET node == fnArg.raw.providerProfiles[i]
                  IN  (\A j \in 1 .. Len(fnArg.raw.providerProfiles) :
                          Trim(fnArg.raw.providerProfiles[j].id) = Trim(node.id) =>
                              fnArg.raw.providerProfiles[j].enabled = "false") =>
                      Trim(node.id) \notin Range(IdsOf(order))

C19_Witness ==
    /\ fnDone
    /\ Len(fnArg.raw.providerProfiles) = 2
    /\ fnArg.raw.providerProfiles[1].enabled = "false"
    /\ fnArg.raw.activeProfile = <<"a">>
    /\ fnArg.raw.fallbackProfiles = <<<<"a">>, <<" ", "a">>>>
    /\ IdsOf(fnOut.profiles) = <<<<"a">>, <<"b">>>>
    /\ IdsOf(fnOut.executionOrder) = <<<<"b">>>>
    /\ fnOut.activeProfile = <<"b">>

\* a string with at least one character that is not whitespace
NonEmpty(v) == v # NoValue /\ v # NotAString /\ Trim(v) # <<>>

\* C20: every profile returned by resolveExtensionSettings, parsed from
\* providerProfiles or built from the legacy keys, has a non-empty baseUrl and
\* a non-empty model; an entry for which no baseUrl is configured and none can
\* be defaulted (azureOpenai without AZURE_OPENAI_BASE_URL) is dropped.
C20_ProfilesHaveUrlAndModel ==
    fnDone =>
        /\ fnOut.profiles # <<>>
        /\ \A p \in Range(fnOut.profiles) \cup Range(fnOut.executionOrder) :
              /\ NonEmpty(p.baseUrl)
              /\ NonEmpty(p.model)
              /\ p.kind \in ProviderKind
              /\ p.kind = "azureOpenai" => p.baseUrl \in {<<"u">>, <<"e">>}

C20_Witness ==
    /\ fnDone
    /\ fnArg.env.AZURE_OPENAI_BASE_URL = NoValue
    /\ Len(fnArg.raw.providerProfiles) = 2
    /\ fnArg.raw.providerProfiles[1] =
          RawNode(TRUE, <<"a">>, <<"azureOpenai">>, NoValue, <<" ">>, "true")
    /\ fnArg.raw.providerProfiles[2].id = <<" ", "b">>
    /\ fnOut.profiles = <<ResolvedProfile(<<"b">>, "ollama", <<"qwen2.5-coder:7b">>,
                                          <<"http://127.0.0.1:11434">>, TRUE)>>

\* C21 as stated: whenever the staged file list is non-empty,
\* buildCommitMessage returns a non-empty message, with source "ai" exactly
\* when the provider chain returned a success and otherwise the rule-based
\* message with source "fallback"; generation never ends without a message.
C21_AlwaysAMessageAsStated ==
    (fnDone /\ fnArg.git.failed # "nameOnly" /\ Len(fnArg.git.files) > 0) =>
        LET chainSucceeded == /\ fnArg.settings = "profiles"
                              /\ fnArg.chain.kind = "success"
        IN  /\ Len(Trim(LineBreaks(fnOut.message))) > 0
            /\ fnOut.source \in {"ai", "fallback"}
            /\ fnOut.source = "ai" <=> chainSucceeded
            /\ fnOut.source = "fallback" =>
                  fnOut.message
                      = buildRuleBasedMessage(fnArg.git.files, fnArg.git.diff)

\* C21: when the staged file list is non-empty and its diff was read,
\* buildCommitMessage returns a non-empty message; its source is "ai" exactly
\* when the provider chain was run and returned a success, and the message
\* then begins with the chain's message; otherwise (no enabled profile, every
\* profile failed, or the AI path threw) the source is "fallback" and the
\* message is the rule-based message of the staged files. When the staged
\* file list is non-empty and reading its diff fails, buildCommitMessage
\* rejects and there is no message.
C21_AlwaysAMessage ==
    /\ (fnDone /\ fnArg.git.failed = "none" /\ Len(fnArg.git.files) > 0) =>
          LET chainSucceeded == /\ fnArg.settings = "profiles"
                                /\ fnArg.chain.kind = "success"
          IN  /\ Len(Trim(LineBreaks(fnOut.message))) > 0
              /\ fnOut.source \in {"ai", "fallback"}
              /\ fnOut.source = "ai" <=> chainSucceeded
              /\ fnOut.source = "ai" =>
                    SubSeq(fnOut.message, 1, Len(fnArg.chain.message))
                          = fnArg.chain.message
              /\ fnOut.source = "fallback" =>
                    /\ fnOut.message
                          = buildRuleBasedMessage(fnArg.git.files, fnArg.git.diff)
                    /\ Len(fnOut.reason) > 0
    /\ (fnDone /\ fnArg.git.failed = "diff" /\ Len(fnArg.git.files) > 0) =>
          fnOut = BuildRejected

C21_Witness ==
    /\ fnDone
    /\ fnArg.git.failed = "none"
    /\ fnArg.git.files = <<"src/a.ts", "README.md">>
    /\ fnArg.settings = "profiles"
    /\ fnArg.chain.kind = "rejected"
    /\ fnOut.source = "fallback"
    /\ fnOut.message[1] \in {"fix", "feat"}
    /\ fnOut.reason = <<"ai_error: ", "detail">>

\* the diff of a non-empty staged list fails: no message, whatever the chain
C21_DiffFails ==
    /\ fnDone
    /\ fnArg.git.failed = "diff"
    /\ fnArg.git.files = <<"src/a.ts">>
    /\ fnArg.settings = "profiles"
    /\ fnArg.chain.kind = "success"
    /\ fnOut = BuildRejected

\* an answer whose text after the first blank line is only blanks and line
\* breaks has no body: the detailed body is appended
C21_BlankBody ==
    /\ fnDone
    /\ fnArg.git.failed = "none"
    /\ fnArg.git.files = <<"src/a.ts">>
    /\ fnArg.settings = "profiles"
    /\ fnArg.chain = ChainSuccess(<<"feat: x", "\n\n", " ", "\n", " ">>)
    /\ fnOut.source = "ai"
    /\ fnOut.message = fnArg.chain.message \o <<"\n\n">>
                           \o buildDetailedBody(fnArg.git.files, fnArg.git.diff)

\* an answer whose blank line is written as two line breaks has a body
C21_TwoLineBreaks ==
    /\ fnDone
    /\ fnArg.git.failed = "none"
    /\ fnArg.git.files = <<"src/a.ts">>
    /\ fnArg.settings = "profiles"
    /\ fnArg.chain = ChainSuccess(<<"feat: x", "\n", "\n", "- body">>)
    /\ fnOut.message = fnArg.chain.message

\* the tokens of part occur in line, one after the other
Contains(line, part) ==
    \E i \in 1..Len(line) :
        /\ i + Len(part) - 1 <= Len(line)
        /\ SubSeq(line, i, i + Len(part) - 1) = part

\* C22: with logRedactSensitive = true, no line written to the output channel
\* during a provider-chain run contains the value of the profile's API key,
\* for every provider kind, log level and entry the executor emits.
C22_NoKeyInOutput ==
    (fnArg.redactSensitive /\ HasText(fnArg.profile.apiKey)) =>
        \A i \in 1..Len(fnOut.lines) :
            ~Contains(fnOut.lines[i], Trim(fnArg.profile.apiKey))

\* the lines of every kind but gemini are free of the key
C22_KeyOnlyInGeminiEndpoint ==
    (fnArg.redactSensitive /\ HasText(fnArg.profile.apiKey)
        /\ fnArg.profile.kind # "gemini") =>
        \A i \in 1..Len(fnOut.lines) :
            ~Contains(fnOut.lines[i], Trim(fnArg.profile.apiKey))

\* at the default log level the provider_success line of a gemini profile
\* carries the key in its endpoint, and so does the [ai-success] line
C22_GeminiLeak ==
    /\ fnDone
    /\ fnArg.redactSensitive
    /\ fnArg.logLevel = "normal"
    /\ fnArg.profile.kind = "gemini"
    /\ fnArg.profile.apiKey = <<"K">>
    /\ fnArg.exchange = Exchange("response", 200)
    /\ Len(fnOut.lines) = 2
    /\ Contains(fnOut.lines[1], <<"provider_success">>)
    /\ Contains(fnOut.lines[1], <<"?key=", "K">>)
    /\ Contains(fnOut.lines[2], <<"[ai-success] provider=">>)
    /\ Contains(fnOut.lines[2], <<"?key=", "K">>)

\* with logging off the [ai-success] line is the only line, and carries the key
C22_GeminiLeakLoggingOff ==
    /\ fnDone
    /\ fnArg.redactSensitive
    /\ fnArg.logLevel = "off"
    /\ fnArg.profile.kind = "gemini"
    /\ fnArg.profile.apiKey = <<"K">>
    /\ Len(fnOut.lines) = 1
    /\ Contains(fnOut.lines[1], <<"?key=", "K">>)

\* the version segment, written twice in a row, occurs in the URL
VersionTwice(url, version) ==
    LET twice == <<"/">> \o version \o <<"/">> \o version
    IN  \E i \in 1..Len(url) :
            /\ i + Len(twice) - 1 <= Len(url)
            /\ toLowerCase(SubSeq(url, i, i + Len(twice) - 1)) = toLowerCase(twice)

\* C23 as stated: for every base b, version v and path p,
\* joinVersionedPath(b, v, p) and joinVersionedPath(b + "/" + v, v, p) are the
\* same URL, and the result never contains the version segment twice in a row.
C23_SameUrlForEveryBase ==
    fnDone =>
        /\ fnOut[1] = fnOut[2]
        /\ Len(trimSlashes(fnArg.version)) > 0 =>
              /\ ~VersionTwice(fnOut[1], trimSlashes(fnArg.version))
              /\ ~VersionTwice(fnOut[2], trimSlashes(fnArg.version))

\* C23: joinVersionedPath inserts the version segment exactly when the
\* normalized base does not already end with it, compared case-insensitively;
\* with an empty version segment the path is simply appended. For a base b
\* without trailing slash that does not already end with the version, and a
\* version v without leading slash, joinVersionedPath(b, v, p) and
\* joinVersionedPath(b + "/" + v, v, p) are the same URL, in which the version
\* segment follows the base once.
C23_VersionInsertedOnce ==
    fnDone =>
        LET base == normalizeBaseUrl(fnArg.base)
            version == trimSlashes(fnArg.version)
            path == ensureLeadingSlash(fnArg.path)
            ends == EndsWith(toLowerCase(base), toLowerCase(<<"/">> \o version))
        IN  /\ Len(version) = 0 => fnOut[1] = base \o path /\ fnOut[2] = fnOut[1]
            /\ (Len(version) > 0 /\ ends) => fnOut[1] = base \o path
            /\ (Len(version) > 0 /\ ~ends) =>
                  fnOut[1] = base \o <<"/">> \o version \o path
            /\ (/\ Len(version) > 0
                /\ ~ends
                /\ base = fnArg.base
                /\ ~StartsWithSlash(fnArg.version)) =>
                  /\ fnOut[2] = fnOut[1]
                  /\ ~VersionTwice(SubSeq(fnOut[1], Len(base) + 1, Len(fnOut[1])),
                                   version)

C23_Witness ==
    /\ fnDone
    /\ fnArg = [base |-> <<"x">>, version |-> <<"V1">>, path |-> <<"p">>]
    /\ fnOut[1] = <<"x", "/", "V1", "/", "p">>
    /\ fnOut[2] = fnOut[1]

\* the same two calls on a base that already ends with the version
C23_AlreadyVersioned ==
    /\ fnDone
    /\ fnArg = [base |-> <<"x", "/", "v1">>, version |-> <<"v1">>, path |-> <<"p">>]
    /\ fnOut[1] = <<"x", "/", "v1", "/", "p">>
    /\ fnOut[2] = <<"x", "/", "v1", "/", "v1", "/", "p">>

\* C24: normalizeBaseUrl is idempotent and its result never ends with a slash:
\* normalizeBaseUrl(normalizeBaseUrl(x)) = normalizeBaseUrl(x) for every x.
C24_NormalizeIdempotent ==
    fnDone =>
        /\ fnOut[2] = fnOut[1]
        /\ ~EndsWith(fnOut[1], <<"/">>)
        /\ \E k \in 0..Len(fnArg) :
              /\ fnOut[1] = SubSeq(fnArg, 1, k)
              /\ \A i \in (k + 1)..Len(fnArg) : fnArg[i] = "/"

C24_Witness ==
    /\ fnDone
    /\ fnArg = <<"x", "/", "/">>
    /\ fnOut = <<<<"x">>, <<"x">>>>

\* C25 as stated: for every adapter kind and every answer text t, parseResponse
\* of t wrapped in that provider's response shape returns exactly t.
C25_RoundTripExact ==
    fnDone =>
        \A t \in AnswerTexts :
            fnArg.data = ResponseShape(fnArg.kind, t) => fnOut = t

\* C25: parseResponse of an answer text t wrapped in the provider's response
\* shape returns exactly t for openaiCompat, openaiResponses, anthropic,
\* azureOpenai and ollama, and t without its leading and trailing whitespace
\* for gemini (exactly t when t has none).
C25_RoundTrip ==
    fnDone =>
        \A t \in AnswerTexts :
            fnArg.data = ResponseShape(fnArg.kind, t) =>
                fnOut = IF fnArg.kind = "gemini" THEN Trim(t) ELSE t

C25_Witness ==
    /\ fnDone
    /\ fnArg.kind = "anthropic"
    /\ fnArg.data = ResponseShape("anthropic", <<" ", "ok">>)
    /\ fnOut = <<" ", "ok">>

\* the gemini adapter on a padded answer
C25_GeminiTrims ==
    /\ fnDone
    /\ fnArg.kind = "gemini"
    /\ fnArg.data = ResponseShape("gemini", <<" ", "ok">>)
    /\ fnOut = <<"ok">>

\* the values found at the end of path in value, through any array element
RECURSIVE FollowAll(_, _)
FollowAll(path, value) ==
    IF Len(path) = 0 THEN {value}
    ELSE IF path[1] = "[]"
    THEN UNION {FollowAll(Tail(path), v) : v \in Range(asArray(value))}
    ELSE FollowAll(Tail(path), Field(asRecord(value), path[1]))

\* the places an adapter reads its text from
ExpectedPaths(kind) ==
    CASE kind \in {"openaiCompat", "azureOpenai"} ->
            {TextPath(kind), TextPath(kind) \o <<"[]", "text">>}
      [] kind = "openaiResponses" ->
            {TextPath(kind), <<"output", "[]", "content", "[]", "text">>}
      [] OTHER -> {TextPath(kind)}

\* a non-empty string at one of the places the adapter reads
HasExpectedText(kind, data) ==
    \E path \in ExpectedPaths(kind) :
        \E v \in FollowAll(path, data) : v.t = "string" /\ Len(v.s) > 0

\* C26: for every adapter kind and every decoded JSON value (null, number,
\* string, array, object with missing or wrongly-typed fields at any depth),
\* parseResponse returns a string; when the expected text field is missing or
\* malformed it returns the empty string.
C26_ParseIsTotal ==
    fnDone =>
        /\ fnOut # NotAString
        /\ \A i \in 1..Len(fnOut) : fnOut[i] \in UNION {Range(t) : t \in AnswerTexts} \cup {"junk", "line1", "line2", "line3", "\n"}
        /\ ~HasExpectedText(fnArg.kind, fnArg.data) => fnOut = <<>>

C26_Witness ==
    /\ fnDone
    /\ fnArg.kind = "gemini"
    /\ fnArg.data = Wrap(<<"candidates", "[]", "content">>, JArray(<<JNull>>))
    /\ fnOut = <<>>

\* the non-empty texts of the parts, in order
NonEmptyTexts(parts) ==
    SelectSeq([i \in 1..Len(parts) |->
                  IF parts[i].t = "object" /\ parts[i].items[1].value.t = "string"
                  THEN parts[i].items[1].value.s ELSE <<>>],
              LAMBDA t : Len(t) > 0)

\* C27 as stated: geminiAdapter.parseResponse returns the non-empty texts of
\* all parts of candidates[0].content.parts, in order, joined by a line break
\* and nothing else done to them.
C27_GeminiPlainJoin ==
    (fnDone /\ fnArg.kind = "gemini") =>
        \A parts \in SeqsUpTo(PartChoices, MaxParts) :
            fnArg.data = Wrap(<<"candidates", "[]", "content", "parts">>, JArray(parts)) =>
                fnOut = JoinTexts(NonEmptyTexts(parts), "\n")

\* C27: geminiAdapter.parseResponse returns the texts of all parts of
\* candidates[0].content.parts that have a non-empty text, in order, joined by
\* a line break (line1 and line2 give line1, line break, line2), with the
\* whitespace around the joined text removed; not just the first part.
C27_GeminiJoinsParts ==
    (fnDone /\ fnArg.kind = "gemini") =>
        \A parts \in SeqsUpTo(PartChoices, MaxParts) :
            fnArg.data = Wrap(<<"candidates", "[]", "content", "parts">>, JArray(parts)) =>
                fnOut = Trim(JoinTexts(NonEmptyTexts(parts), "\n"))

C27_Witness ==
    /\ fnDone
    /\ fnArg.kind = "gemini"
    /\ fnArg.data = Wrap(<<"candidates", "[]", "content", "parts">>,
                         JArray(<<JObject(<<JField("text", JString(<<"line1">>))>>),
                                  JObject(<<JField("text", JString(<<"line2">>))>>)>>))
    /\ fnOut = <<"line1", "\n", "line2">>

\* a part list whose last text ends with a blank: the blank is removed
C27_Padded ==
    /\ fnDone
    /\ fnArg.kind = "gemini"
    /\ fnOut = <<"line1", "\n", "line3">>

\* C28: the headers of the request built by buildRequest are the adapter's
\* default headers overridden by profile.extraHeaders: every key of
\* extraHeaders is in the request with the extraHeaders value, every default
\* header whose name is not a key of extraHeaders keeps its default value, and
\* the request has no other header.
C28_ExtraHeadersOverride ==
    (fnDone /\ ~fnOut.request.threw) =>
        LET headers == fnOut.request.headers
            extra == fnArg.extraHeaders
            apiKey == IF fnArg.kind \in {"gemini", "ollama"} THEN <<>>
                      ELSE Trim(fnArg.apiKey)
            defaults == DefaultHeaders(fnArg.kind, apiKey)
        IN  /\ \A i \in 1..Len(extra) :
                  HeaderValue(headers, extra[i].key) = extra[i].value
            /\ \A i \in 1..Len(defaults) :
                  ~HasHeader(extra, defaults[i].key) =>
                      HeaderValue(headers, defaults[i].key) = defaults[i].value
            /\ \A i \in 1..Len(headers) :
                  /\ HasHeader(extra, headers[i].key) \/ HasHeader(defaults, headers[i].key)
                  /\ \A j \in 1..Len(headers) : headers[j].key = headers[i].key => j = i

C28_Witness ==
    /\ fnDone
    /\ fnArg.kind = "anthropic"
    /\ fnArg.apiKey = <<"K">>
    /\ fnArg.extraHeaders = <<Header("Authorization", <<"Basic ">>), Header("X-Custom", <<"1">>)>>
    /\ fnOut.request.headers =
          <<Header("x-api-key", <<"K">>),
            Header("Authorization", <<"Basic ">>),
            Header("anthropic-version", <<"2023-06-01">>),
            Header("Content-Type", <<"application/json">>),
            Header("X-Custom", <<"1">>)>>

\* C30: getProviderAdapter is total over ProviderKind: for each of the six
\* kinds it returns one defined adapter, and that adapter's kind field equals
\* the kind it was looked up by.
C30_RegistryIsTotal ==
    /\ DOMAIN ADAPTERS = ProviderKind
    /\ Cardinality(ProviderKind) = 6
    /\ fnDone =>
          /\ fnOut.adapter \in {openaiCompatAdapter, openaiResponsesAdapter,
                                anthropicAdapter, azureOpenaiAdapter,
                                geminiAdapter, ollamaAdapter}
          /\ fnOut.adapter.kind = fnArg.kind
          /\ fnOut.adapter = getProviderAdapter(fnArg.kind)

C30_Witness ==
    /\ fnDone
    /\ fnArg.kind = "openaiResponses"
    /\ fnOut.adapter = openaiResponsesAdapter
    /\ ~fnOut.request.threw
    /\ fnOut.request.endpoint = <<"u", "/", "v1", "/", "responses">>

\* the concatenation of texts with sep between two neighbours
RECURSIVE Joined(_, _, _)
Joined(texts, sep, n) ==
    IF n = 0 THEN <<>>
    ELSE IF n = 1 THEN texts[1]
    ELSE Joined(texts, sep, n - 1) \o <<sep>> \o texts[n]

\* C29: formatFailureReason renders provider/profileId, then a status=N
\* segment exactly when status is a number, then attempt=N retryable=bool
\* error=message; the same record always gives the same text, and
\* summarizeFailures is these texts joined by "; " in list order.
C29_FailureReasonFormat ==
    fnDone =>
        /\ fnOut.second = fnOut.first
        /\ \A i \in 1..Len(fnArg) :
              LET f == fnArg[i]
                  text == fnOut.first[i]
                  rest == <<" attempt=", ToString(f.attempt),
                            " retryable=", IF f.retryable THEN "true" ELSE "false",
                            " error=", f.error>>
              IN  /\ SubSeq(text, 1, 3) = <<f.provider, "/", f.profileId>>
                  /\ f.status # NoStatus =>
                        text = SubSeq(text, 1, 3)
                                  \o <<" status=", ToString(f.status)>> \o rest
                  /\ f.status = NoStatus =>
                        /\ text = SubSeq(text, 1, 3) \o rest
                        /\ \A k \in 1..Len(text) : text[k] # " status="
                  /\ \A j \in 1..Len(fnArg) : fnArg[j] = f => fnOut.first[j] = text
        /\ fnOut.summary = Joined(fnOut.first, "; ", Len(fnArg))

C29_Witness ==
    /\ fnDone
    /\ Len(fnArg) = 2
    /\ fnArg[1].status = 429
    /\ fnArg[2] = FailureRecord("anthropic", "fallback", NoStatus, 2, FALSE, "invalid request")
    /\ fnOut.first[2] = <<"anthropic", "/", "fallback", " attempt=", "2",
                          " retryable=", "false", " error=", "invalid request">>
    /\ fnOut.summary = fnOut.first[1] \o <<"; ">> \o fnOut.first[2]

\* the failure records of the profile at position i, in list order
RecordsOf(list, i) == SelectSeq(list, LAMBDA f : f.profileId = i)

\* C38: in every result of executeProviderChain (and in the failures list at
\* every moment of the run) the failure records of each profile number at
\* most max(0, maxRetries) + 1, carry the attempt numbers 1..k in order, and
\* every record but the last one of the profile is retryable.
C38_RecordsPerProfile ==
    /\ returned.returned => returned.failures = failures
    /\ \A i \in 1 .. Len(profiles) :
          LET own == RecordsOf(failures, i)
          IN  /\ Len(own) <= AttemptBudget(profiles[i])
              /\ \A k \in 1 .. Len(own) : own[k].attempt = k
              /\ \A k \in 1 .. Len(own) - 1 : own[k].retryable

C38_Witness ==
    /\ returned.returned
    /\ Len(profiles) = 2
    /\ profiles[1].maxRetries = 1
    /\ Len(RecordsOf(returned.failures, 1)) = 2
    /\ RecordsOf(returned.failures, 1)[1].retryable
    /\ ~RecordsOf(returned.failures, 1)[2].retryable
    /\ Len(RecordsOf(returned.failures, 2)) = 1

\* C39: when the result names the profile at position i as the success, every
\* profile before i has a failure record, whose last one is non-retryable or
\* has attempt = max(0, maxRetries) + 1; no profile after i has a failure
\* record or was sent a request.
C39_SuccessPosition ==
    HasSuccess =>
        LET i == returned.success.profileId
        IN  /\ i \in 1 .. Len(profiles)
            /\ \A j \in 1 .. (i - 1) :
                  LET own == RecordsOf(returned.failures, j)
                  IN  /\ Len(own) >= 1
                      /\ \/ ~own[Len(own)].retryable
                         \/ own[Len(own)].attempt = AttemptBudget(profiles[j])
            /\ \A j \in (i + 1) .. Len(profiles) :
                  /\ Len(RecordsOf(returned.failures, j)) = 0
                  /\ CallsTo(j) = 0
                  /\ \A k \in 1 .. Len(attempts) : attempts[k].pos # j

C39_Witness ==
    /\ HasSuccess
    /\ Len(profiles) = 2
    /\ returned.success.profileId = 1
    /\ Len(returned.failures) = 1
    /\ returned.failures[1].profileId = 1
    /\ returned.failures[1].retryable
    /\ CallsTo(1) = 2
    /\ CallsTo(2) = 0

\* the sum over the profiles of max(0, maxRetries) + 1
RECURSIVE BudgetSum(_)
BudgetSum(ps) ==
    IF Len(ps) = 0 THEN 0 ELSE AttemptBudget(ps[1]) + BudgetSum(Tail(ps))

\* C32: every run of executeProviderChain over a finite profile list
\* terminates and returns a result, each suspension ending at the latest
\* when the timeout deadline fires.
C32_RunTerminates == <>(pc = "done" /\ returned.returned)

\* the number of HTTP requests of a run never exceeds the sum of the budgets
C32_RequestsBounded == Len(httpCalls) <= BudgetSum(profiles)

\* the wait for the response headers and the backoff sleep always end
C32_FetchAndSleepEnd ==
    /\ (pc = "fetch") ~> (pc # "fetch")
    /\ (pc = "sleep") ~> (pc # "sleep")

\* the body read of a response outlives the deadline
C32_BodyReadOutlivesDeadline ==
    /\ pc = "text"
    /\ deadlinePassed
    /\ timer = "cleared"
    /\ <<pIdx, attempt>> \in inFlight
    /\ ~ENABLED DeadlineElapses

\* the text of chunk j of output item i of a response of the responses API
ChunkText(data, i, j) ==
    asString(Field(asArray(Field(asArray(Field(data, "output"))[i], "content"))[j], "text"))

\* the positions (item, chunk) of the chunks with a non-empty text
TextPositions(data) ==
    LET output == asArray(Field(data, "output"))
    IN  {p \in (1 .. Len(output)) \X (1 .. MaxParts + 1) :
            /\ p[2] <= Len(asArray(Field(output[p[1]], "content")))
            /\ Len(ChunkText(data, p[1], p[2])) > 0}

ScanBefore(p, q) == p[1] < q[1] \/ (p[1] = q[1] /\ p[2] <= q[2])

\* C36: openaiResponsesAdapter.parseResponse returns the top-level
\* output_text whenever it is a non-empty string, otherwise the text of the
\* first chunk with a non-empty text in the scan order of the output items
\* and their content chunks, and the empty string when there is none.
C36_OutputTextThenFirstChunk ==
    (fnDone /\ fnArg.kind = "openaiResponses") =>
        LET data == fnArg.data
            top == Field(data, "output_text")
            found == TextPositions(data)
        IN  IF top.t = "string" /\ Len(top.s) > 0 THEN fnOut = top.s
            ELSE IF found = {} THEN Len(fnOut) = 0
            ELSE \E p \in found :
                    /\ \A q \in found : ScanBefore(p, q)
                    /\ fnOut = ChunkText(data, p[1], p[2])

\* the first item has no text, the second has an empty chunk before "b"
C36_Witness ==
    /\ fnDone
    /\ Field(fnArg.data, "output_text").t = "undefined"
    /\ TextPositions(fnArg.data) = {<<2, 2>>}
    /\ Len(asArray(Field(asArray(Field(fnArg.data, "output"))[1], "content"))) > 0
    /\ fnOut = <<"b">>

\* the shortcut wins over the chunks
C36_OutputTextWins ==
    /\ fnDone
    /\ TextPositions(fnArg.data) # {}
    /\ fnOut = <<"top">>

\* asRecord, asArray and asString return their argument only for a value of
\* their type, else undefined, an empty array, the empty string
AccessorsByType ==
    /\ fnOut.record = (IF fnArg.t = "object" THEN fnArg ELSE JUndefined)
    /\ IF fnArg.t = "array"
       THEN /\ Len(fnOut.array) = Len(fnArg.items)
            /\ \A i \in 1 .. Len(fnArg.items) : fnOut.array[i] = fnArg.items[i].value
       ELSE Len(fnOut.array) = 0
    /\ IF fnArg.t = "string" THEN fnOut.string = fnArg.s ELSE Len(fnOut.string) = 0

\* the result holds exactly the entries of value that satisfy Keep, in order
KeptExactly(Keep(_)) ==
    LET kept == fnOut.stringRecord
    IN  IF fnArg.t # "object" THEN Len(kept) = 0
        ELSE /\ \A k \in 1 .. Len(kept) :
                   \E i \in 1 .. Len(fnArg.items) : fnArg.items[i] = kept[k] /\ Keep(kept[k])
             /\ \A i \in 1 .. Len(fnArg.items) :
                   Keep(fnArg.items[i]) => \E k \in 1 .. Len(kept) : kept[k] = fnArg.items[i]
             /\ \A k, l \in 1 .. Len(kept) : k # l => kept[k].key # kept[l].key

IsNonEmptyString(entry) == entry.value.t = "string" /\ Len(entry.value.s) > 0

IsNonBlankString(entry) ==
    /\ entry.value.t = "string"
    /\ \E i \in 1 .. Len(entry.value.s) : ~IsSpace(entry.value.s[i])

\* C37 as stated: asStringRecord returns exactly the entries whose values are
\* non-empty strings, and asRecord, asArray, asString return their argument
\* only for a value of their type.
C37_KeepsNonEmptyStrings ==
    fnDone => (AccessorsByType /\ KeptExactly(IsNonEmptyString))

\* C37, amended: asStringRecord returns exactly the entries whose values are
\* strings with a character other than white space, values unchanged (the
\* empty record when value is not a non-array object); asRecord, asArray and
\* asString return their argument only for a value of their type.
C37_KeepsNonBlankStrings ==
    fnDone => (AccessorsByType /\ KeptExactly(IsNonBlankString))

\* an object with a kept padded string and a dropped entry
C37_Witness ==
    /\ fnDone
    /\ fnArg.t = "object"
    /\ Len(fnArg.items) = 2
    /\ fnArg.items[1].value = JString(<<" ", "v">>)
    /\ fnArg.items[2].value = JNumber
    /\ fnOut.stringRecord = <<fnArg.items[1]>>

\* a string of white space only is dropped
C37_BlankDropped ==
    /\ fnDone
    /\ fnArg.t = "object"
    /\ \E i \in 1 .. Len(fnArg.items) : fnArg.items[i].value = JString(<<" ">>)
    /\ Len(fnOut.stringRecord) = 0

\* the body is not valid JSON: blank, or a text JSON.parse rejects
NotJsonBody == fnArg.body \in BlankBodies \cup BrokenBodies

IsBlankText(text) == \A i \in 1 .. Len(text) : IsSpace(text[i])

\* the decoding and the success-range outcome of a body that is not JSON
C35_DecodedAndEmptyMessage ==
    /\ fnOut.data = (IF IsBlankText(fnArg.body) THEN JObject(<<>>)
                     ELSE JObject(<<JField("raw", JString(fnArg.body))>>))
    /\ ResponseOk(fnArg.status) =>
          /\ ~fnOut.ok
          /\ ~fnOut.retryable
          /\ fnOut.status = NoStatus
          /\ fnOut.message = EmptyMessageError.msg

\* C35 as stated: a body that is not valid JSON is decoded as an object
\* holding the raw text (empty object for an empty or blank body); with a
\* success status the attempt ends as an empty-message failure, with an error
\* status as an HTTP status failure whose error text is the raw body.
C35_ErrorTextIsRawBody ==
    (fnDone /\ NotJsonBody) =>
        /\ C35_DecodedAndEmptyMessage
        /\ ~ResponseOk(fnArg.status) =>
              /\ ~fnOut.ok
              /\ fnOut.status = fnArg.status
              /\ fnOut.message = fnArg.body

\* C35, amended: as above, the error text of the HTTP status failure being
\* the raw body without its leading and trailing white space, and
\* "HTTP <status>" when the body is empty.
C35_ErrorTextIsTrimmedBody ==
    (fnDone /\ NotJsonBody) =>
        /\ C35_DecodedAndEmptyMessage
        /\ ~ResponseOk(fnArg.status) =>
              /\ ~fnOut.ok
              /\ fnOut.status = fnArg.status
              /\ fnOut.retryable = isRetryableStatus(fnArg.status)
              /\ fnOut.message = (IF Len(fnArg.body) = 0
                                  THEN <<"HTTP", " ", ToString(fnArg.status)>>
                                  ELSE Trim(fnArg.body))

\* markup with a trailing line break under an error status
C35_Witness ==
    /\ fnDone
    /\ fnArg.body = <<"<html>", "\n">>
    /\ fnArg.status = 503
    /\ fnOut.data = JObject(<<JField("raw", JString(<<"<html>", "\n">>))>>)
    /\ fnOut.message = <<"<html>">>
    /\ fnOut.retryable

\* plain text under status 200
C35_WitnessOk ==
    /\ fnDone
    /\ fnArg.body = <<"Bad Gateway">>
    /\ fnArg.status = 200
    /\ ~fnOut.ok
    /\ fnOut.message = EmptyMessageError.msg

\* a JSON body is decoded to its value and its text is returned
C35_JsonStillParsed ==
    /\ fnDone
    /\ fnArg.status = 200
    /\ fnArg.kind = "ollama"
    /\ fnArg.body = <<" ">> \o Stringify(ResponseShape("ollama", <<"ok">>)) \o <<"\n">>
    /\ fnOut.ok
    /\ fnOut.message = <<"ok">>

\* a setting is set: it is a string with a character other than white space
IsSet(value) == value \notin {NoValue, NotAString} /\ \E i \in 1 .. Len(value) : ~IsSpace(value[i])

AnyLegacyKeySet(raw) ==
    \E value \in {raw.apiKey, raw.openaiApiKey, raw.apiBaseUrl, raw.apiProtocol,
                  raw.openaiModel} : IsSet(value)

\* entry k of providerProfiles is a valid profile
ValidEntry(k) ==
    /\ fnArg.raw.profilesIsArray
    /\ Len(parseSingleProfile(fnArg.raw.providerProfiles[k], fnArg.env)) > 0

EntryId(k) == parseSingleProfile(fnArg.raw.providerProfiles[k], fnArg.env)[1].id

YieldsNoValidProfile == \A k \in 1 .. Len(fnArg.raw.providerProfiles) : ~ValidEntry(k)

WithoutLegacyKeys(raw) ==
    RawSettings(raw.profilesIsArray, raw.providerProfiles, NoLegacyKeys)

\* C31: when providerProfiles yields no valid profile the result has exactly
\* one profile built from the legacy keys: enabled, with id legacy-default
\* when a legacy key is set and default otherwise, of the kind the protocol
\* maps to, and usedLegacyConfig is true exactly when a legacy key is set;
\* when providerProfiles yields a valid profile the legacy keys are ignored.
C31_LegacyProfile ==
    fnDone =>
        LET raw == fnArg.raw
            out == fnOut.settings
            protocol == IF IsSet(raw.apiProtocol) THEN Trim(raw.apiProtocol) ELSE <<>>
        IN  IF YieldsNoValidProfile
            THEN /\ Len(out.profiles) = 1
                 /\ out.profiles[1].enabled
                 /\ out.profiles[1].id = (IF AnyLegacyKeySet(raw) THEN <<"legacy-default">>
                                          ELSE <<"default">>)
                 /\ out.profiles[1].kind =
                        (IF protocol = <<"anthropicMessages">> THEN "anthropic"
                         ELSE IF protocol = <<"responses">> THEN "openaiResponses"
                         ELSE "openaiCompat")
                 /\ out.usedLegacyConfig = AnyLegacyKeySet(raw)
            ELSE /\ ~out.usedLegacyConfig
                 /\ out = resolveExtensionSettings(WithoutLegacyKeys(raw), fnArg.env)
                 /\ \A i \in 1 .. Len(out.profiles) :
                       out.profiles[i].id \notin {<<"legacy-default">>, <<"default">>}

\* an array of invalid entries with only the protocol set
C31_Witness ==
    /\ fnDone
    /\ fnArg.raw.profilesIsArray
    /\ Len(fnArg.raw.providerProfiles) = 2
    /\ YieldsNoValidProfile
    /\ fnArg.raw.apiProtocol = <<"anthropicMessages">>
    /\ fnArg.raw.apiKey = NoValue
    /\ Len(fnOut.settings.profiles) = 1
    /\ fnOut.settings.profiles[1].id = <<"legacy-default">>
    /\ fnOut.settings.profiles[1].kind = "anthropic"
    /\ fnOut.settings.usedLegacyConfig

\* a valid entry next to every legacy key
C31_LegacyIgnored ==
    /\ fnDone
    /\ ~YieldsNoValidProfile
    /\ fnArg.raw.apiKey = <<"k">>
    /\ fnArg.raw.apiProtocol = <<"anthropicMessages">>
    /\ ~fnOut.settings.usedLegacyConfig
    /\ fnOut.settings.profiles[1].kind = "ollama"

\* no entry and no legacy key: the profile named default
C31_DefaultProfile ==
    /\ fnDone
    /\ ~fnArg.raw.profilesIsArray
    /\ fnArg.raw.apiKey = <<" ">>
    /\ fnOut.settings.profiles[1].id = <<"default">>
    /\ ~fnOut.settings.usedLegacyConfig

\* entry k is valid and no valid entry before it has its id
FirstWithId(k) ==
    /\ ValidEntry(k)
    /\ \A j \in 1 .. k - 1 : ValidEntry(j) => EntryId(j) # EntryId(k)

\* C34: the returned profiles have pairwise distinct ids; of the entries of
\* providerProfiles with the same id only the first valid one is kept, and
\* each later one is dropped with a warning.
C34_DistinctIds ==
    fnDone =>
        LET out == fnOut.settings.profiles
            entries == 1 .. Len(fnArg.raw.providerProfiles)
            kept == {k \in entries : FirstWithId(k)}
            later == {k \in entries : ValidEntry(k) /\ ~FirstWithId(k)}
        IN  /\ \A i, j \in 1 .. Len(out) : i # j => out[i].id # out[j].id
            /\ kept # {} =>
                  /\ Len(out) = Cardinality(kept)
                  /\ \A k \in kept :
                        \E i \in 1 .. Len(out) :
                            out[i] = parseSingleProfile(fnArg.raw.providerProfiles[k],
                                                        fnArg.env)[1]
            /\ Len(fnOut.duplicates) = Cardinality(later)
            /\ \A k \in later :
                  \E w \in 1 .. Len(fnOut.duplicates) :
                      fnOut.duplicates[w] = [index |-> k - 1, id |-> EntryId(k)]

\* two valid entries whose ids are equal once trimmed: the second is dropped
\* with a warning that names its index
C34_Witness ==
    /\ fnDone
    /\ Len(fnArg.raw.providerProfiles) = 2
    /\ fnArg.raw.providerProfiles[1].id = <<"a">>
    /\ fnArg.raw.providerProfiles[2].id = <<" ", "a">>
    /\ ValidEntry(1)
    /\ ValidEntry(2)
    /\ Len(fnOut.settings.profiles) = 1
    /\ fnOut.settings.profiles[1].kind = "ollama"
    /\ fnOut.duplicates = <<[index |-> 1, id |-> <<"a">>]>>

\* an invalid entry does not reserve its id
C34_FirstValidKept ==
    /\ fnDone
    /\ Len(fnArg.raw.providerProfiles) = 2
    /\ ~ValidEntry(1)
    /\ fnArg.raw.providerProfiles[1].id = <<"a">>
    /\ ValidEntry(2)
    /\ EntryId(2) = <<"a">>
    /\ Len(fnOut.settings.profiles) = 1
    /\ Len(fnOut.duplicates) = 0

\* a raw value is numeric: a finite number or the text of one
IsNumeric(value) ==
    \/ value.t = "number" /\ value.class = "finite"
    \/ /\ value.t = "string"
       /\ Len(Trim(value.text)) = 1
       /\ Trim(value.text)[1] \in Numerals

\* every resolved limit is an integer within its range
C33_LimitsInRange ==
    fnDone =>
        \A profile \in {fnOut.parsed, fnOut.legacy} :
            /\ profile.maxRetries \in 0 .. 5
            /\ profile.timeoutMs \in Int
            /\ 1000 <= profile.timeoutMs
            /\ profile.timeoutMs <= 3600000

\* a value that is not numeric gives way to the setting behind it
FallsBack(value, result, fallback) == ~IsNumeric(value) => result = fallback

\* C33: every returned profile has an integer maxRetries in 0..5 and an
\* integer timeoutMs in 1000..3600000, for every raw per-profile value, global
\* setting and API_TIMEOUT_MS value; non-numeric values fall back to the
\* global setting or default, out-of-range values are clamped.
C33_RangeAndFallback ==
    fnDone =>
        /\ C33_LimitsInRange
        /\ FallsBack(fnArg.env.API_TIMEOUT_MS, fnOut.requestTimeoutDefault, 20000)
        /\ FallsBack(fnArg.raw.requestTimeoutMs, fnOut.requestTimeoutMs,
                     fnOut.requestTimeoutDefault)
        /\ FallsBack(fnArg.raw.maxRetries, fnOut.maxRetries, 2)
        /\ FallsBack(fnArg.node.timeoutMs, fnOut.parsed.timeoutMs, fnOut.requestTimeoutMs)
        /\ FallsBack(fnArg.node.maxRetries, fnOut.parsed.maxRetries, fnOut.maxRetries)

\* a profile with timeoutMs null gets the minimum, not the global setting
C33_NullBecomesMinimum ==
    /\ fnDone
    /\ fnArg.node.timeoutMs = RawNull
    /\ fnOut.requestTimeoutMs = 3000000
    /\ fnOut.parsed.timeoutMs = 1000

\* an empty API_TIMEOUT_MS gives a default of one second
C33_EmptyEnvBecomesMinimum ==
    /\ fnDone
    /\ fnArg.env.API_TIMEOUT_MS = RawString(<<>>)
    /\ fnArg.raw.requestTimeoutMs = RawUndefined
    /\ fnArg.node.timeoutMs = RawUndefined
    /\ fnOut.parsed.timeoutMs = 1000

\* values out of range are clamped, fractions truncated, undefined falls back
C33_ClampedAndTruncated ==
    /\ fnDone
    /\ fnArg.node.timeoutMs = RawNumber(36000010)
    /\ fnOut.parsed.timeoutMs = 3600000
    /\ fnArg.node.maxRetries = RawNumber(29)
    /\ fnOut.parsed.maxRetries = 2
    /\ fnArg.raw.maxRetries = RawString(<<"7">>)
    /\ fnOut.maxRetries = 5

\* the invocations between setting the flag and the finally block
Generating ==
    {i \in Invocations : fnOut.at[i] \in {"getGitApi", "buildCommitMessage", "withProgress"}}

\* C40: isGenerating is true exactly while one invocation is generating: at
\* most one invocation runs buildCommitMessage and writes the input box at a
\* time, an invocation that arrives while another is in progress returns
\* without starting a chain or writing the input box, and the flag is false
\* again after every exit, so that a later invocation proceeds.
C40_OneGenerationAtATime ==
    /\ isGenerating <=> Generating # {}
    /\ Cardinality(Generating) <= 1
    /\ \A i \in Invocations :
          /\ fnOut.outcome[i] = "busy" =>
                /\ fnOut.at[i] = "returned"
                /\ \A k \in 1 .. Len(fnOut.built) : fnOut.built[k] # i
                /\ \A k \in 1 .. Len(fnOut.wrote) : fnOut.wrote[k] # i
          /\ (fnOut.at[i] = "pending" /\ Generating = {}) =>
                /\ ENABLED Generate(i)
                /\ ~isGenerating
    /\ \A k \in 1 .. Len(fnOut.wrote) :
          \E l \in 1 .. Len(fnOut.built) : fnOut.built[l] = fnOut.wrote[k]
    /\ Len(fnOut.wrote) = 0 => fnOut.inputBox = fnArg

\* the first invocation ended with a thrown error, the second arrived during
\* the third and returned at once, the third is in buildCommitMessage
C40_Witness ==
    /\ fnOut.outcome[1] = "error"
    /\ fnOut.outcome[2] = "busy"
    /\ fnOut.at[3] = "buildCommitMessage"
    /\ isGenerating
    /\ fnOut.built = <<1, 3>>

\* after an early return and a written message the flag is false
C40_FlagResetOnEveryExit ==
    /\ fnOut.outcome[1] = "noRepository"
    /\ fnOut.outcome[2] = "written"
    /\ fnOut.inputBox = <<"feat", "2">>
    /\ ~isGenerating

=============================================================================
